---- MODULE Spec2Model ----
(***************************************************************************)
(* A state-machine model of the messaging substrate of the hierarchical    *)
(* network system: the Message envelope (core/communication/message.py),   *)
(* the per-agent CommunicationProtocol (core/communication/protocol.py)    *)
(* and the MessageRouter (core/communication/router.py).                   *)
(*                                                                         *)
(* The program runs on one asyncio event loop.  A step of the model is the *)
(* code a coroutine executes between two suspension points; the            *)
(* suspension points are the awaits of a future (asyncio.wait_for), of a   *)
(* handler, of a cancelled task and of asyncio.gather.                     *)
(* asyncio.Queue.put on an unbounded queue never suspends.                 *)
(*                                                                         *)
(* Message objects live in a heap (msgs); queues, calls and tables hold    *)
(* references (heap indices), as the Python code does.  uuid4 identifiers  *)
(* are modelled as the heap index, which is fresh for every Message().     *)
(***************************************************************************)
EXTENDS Integers, Sequences, FiniteSets, TLC

(***************************************************************************)
(* Bounds of the model.                                                    *)
(***************************************************************************)
NumAgents == 2          \* agents (one CommunicationProtocol each)
MaxRetriesBound == 1    \* largest max_retries a caller chooses

AgentNames == <<"A", "B", "C", "D">>
ReplyPayloads == <<"pA", "pB", "pC", "pD">>
Agents == {AgentNames[i] : i \in 1..NumAgents}

\* receiver_id == "" means broadcast (message.py:62)
Broadcast == ""
\* parent_message_id: Optional[str] = None (message.py:67); identifiers are >= 1
None == 0

\* the part of the MessageType taxonomy the model exercises; an enum member
\* is its name, MessageTypeValue gives its value (message.py:14-16)
MessageType == {"QUERY", "QUERY_RESPONSE"}
MessageTypeValue == [QUERY |-> "query", QUERY_RESPONSE |-> "query_response"]

\* message.py:46-52
MessagePriority == {"LOW", "NORMAL", "HIGH", "CRITICAL"}
MessagePriorityValue == [LOW |-> 0, NORMAL |-> 1, HIGH |-> 2, CRITICAL |-> 3]
Capabilities == {"search", "plan"}
RequestPayload == "req"

\* what a registered handler does when awaited: complete, raise an
\* Exception, or answer the message through the router
HandlerKinds == {"ok", "raise", "reply"}
NoHandler == "none"

VARIABLES
    msgs,                 \* heap of Message objects, msgs[i].message_id = i
    handlers,             \* CommunicationProtocol._handlers, per agent
    pending_responses,    \* CommunicationProtocol._pending_responses, per agent
    message_queue,        \* CommunicationProtocol._message_queue, per agent
    is_running,           \* CommunicationProtocol._is_running, per agent
    processing_task,      \* CommunicationProtocol._processing_task, per agent
    tasks,                \* the draining tasks ever created, with their state
    stops,                \* CommunicationProtocol.stop calls (coroutines)
    calls,                \* send_message calls (coroutines) and their futures
    fanouts,              \* route_by_capability calls
    networks,             \* MessageRouter._networks (ordered dict)
    network_capabilities, \* MessageRouter._network_capabilities (ordered dict)
    message_log,          \* MessageRouter._message_log
    router_max_log_size,  \* MessageRouter._max_log_size
    priority_queues,      \* MessageRouter._priority_queues
    router_is_running,    \* MessageRouter._is_running
    router_stops,         \* MessageRouter.stop calls (coroutines)
    routed,               \* history: route_message calls and what they return
    handling,             \* handler invocations awaited by receive_message
    received,             \* history: receive_message invocations, in order
    drained,              \* history: messages the draining tasks took
    returned              \* history: what calls of Message methods returned

vars == <<msgs, handlers, pending_responses, message_queue, is_running,
          processing_task, tasks, stops, calls, fanouts, networks,
          network_capabilities, message_log, router_max_log_size,
          priority_queues, router_is_running, router_stops, routed,
          handling, received, drained, returned>>

protocolVars == <<handlers, pending_responses, message_queue, is_running,
                  processing_task, tasks, stops>>
routerVars == <<networks, network_capabilities, message_log,
                router_max_log_size, priority_queues, router_is_running,
                router_stops, routed>>

(***************************************************************************)
(* Python containers.                                                      *)
(* An ordered dict is a sequence of [key, value] entries in insertion      *)
(* order; _pending_responses, whose order no code path observes, is a      *)
(* function from its keys.                                                 *)
(***************************************************************************)
DictKeys(d) == {d[i].key : i \in DOMAIN d}

DictHas(d, k) == k \in DictKeys(d)

DictGet(d, k) == d[CHOOSE i \in DOMAIN d : d[i].key = k].value

\* d[k] = v: a present key keeps its position, a new key goes last
DictSet(d, k, v) ==
    IF DictHas(d, k)
    THEN [i \in DOMAIN d |-> IF d[i].key = k THEN [key |-> k, value |-> v] ELSE d[i]]
    ELSE Append(d, [key |-> k, value |-> v])

\* d.pop(k, None)
DictPop(d, k) == SelectSeq(d, LAMBDA e : e.key # k)

EmptyMap == [k \in {} |-> 0]

MapSet(f, k, v) == [x \in DOMAIN f \cup {k} |-> IF x = k THEN v ELSE f[x]]

MapPop(f, k) == [x \in DOMAIN f \ {k} |-> f[x]]

(***************************************************************************)
(* Message (message.py).                                                   *)
(***************************************************************************)
\* a datetime: the second and the microsecond of its local time and, for an
\* aware one, its UTC offset in minutes.  datetime.utcnow() (message.py:64)
\* is naive; no code path reads the clock's value.
UtcNow == [second |-> 0, microsecond |-> 0, aware |-> FALSE, utcoffset |-> 0]

\* timeout_seconds: float = 30.0 (message.py:69)
DefaultTimeoutSeconds == 30

\* the dataclass constructor with its defaults (message.py:59-71); the
\* message_id is assigned when the object is put on the heap
Message(type, sender, receiver, priority, payload, parent, requires, maxr) ==
    [message_id |-> None,
     message_type |-> type,
     sender_id |-> sender,
     receiver_id |-> receiver,
     priority |-> priority,
     timestamp |-> UtcNow,
     payload |-> payload,
     metadata |-> EmptyMap,
     parent_message_id |-> parent,
     requires_response |-> requires,
     timeout_seconds |-> DefaultTimeoutSeconds,
     retry_count |-> 0,
     max_retries |-> maxr]

DefaultMaxRetries == 3
DefaultPriority == "NORMAL"

\* the heap after constructing message object m; its identifier is fresh
Alloc(heap, m) == Append(heap, [m EXCEPT !.message_id = Len(heap) + 1])

\* as should_retry with an off-by-one comparison
should_retry_le(m) == m.retry_count <= m.max_retries

\* as should_retry comparing for inequality
should_retry_ne(m) == m.retry_count # m.max_retries

should_retry(m) == m.retry_count < m.max_retries

\* as increment_retry adding two
increment_retry_twice(m) == [m EXCEPT !.retry_count = @ + 2]

increment_retry(m) == [m EXCEPT !.retry_count = @ + 1]

\* as create_response without swapping sender and receiver
create_response_unswapped(m, payload) ==
    Message("QUERY_RESPONSE", m.sender_id, m.receiver_id, m.priority,
            payload, m.message_id, FALSE, DefaultMaxRetries)

create_response(m, payload) ==
    Message("QUERY_RESPONSE", m.receiver_id, m.sender_id, m.priority,
            payload, m.message_id, FALSE, DefaultMaxRetries)

\* datetime.isoformat(): the parts of the text; the fraction is left out
\* when the microsecond is 0, the offset when the datetime is naive
isoformat(dt) ==
    <<dt.second>>
        \o (IF dt.microsecond # 0 THEN <<".", dt.microsecond>> ELSE <<>>)
        \o (IF dt.aware THEN <<"+", dt.utcoffset>> ELSE <<>>)

\* datetime.fromisoformat()
fromisoformat(text) ==
    LET fraction == Len(text) >= 3 /\ text[2] = "."
        rest == IF fraction THEN SubSeq(text, 4, Len(text))
                ELSE SubSeq(text, 2, Len(text))
    IN  [second |-> text[1],
         microsecond |-> IF fraction THEN text[3] ELSE 0,
         aware |-> rest # <<>>,
         utcoffset |-> IF rest # <<>> THEN rest[2] ELSE 0]

\* MessageType(value), MessagePriority(value): the member with that value
MessageTypeOf(value) ==
    CHOOSE member \in MessageType : MessageTypeValue[member] = value

MessagePriorityOf(value) ==
    CHOOSE member \in MessagePriority : MessagePriorityValue[member] = value

\* message.py:73-89: a snapshot of the message by value
to_dict(m) ==
    [message_id |-> m.message_id,
     message_type |-> MessageTypeValue[m.message_type],
     sender_id |-> m.sender_id,
     receiver_id |-> m.receiver_id,
     priority |-> MessagePriorityValue[m.priority],
     timestamp |-> isoformat(m.timestamp),
     payload |-> m.payload,
     metadata |-> m.metadata,
     parent_message_id |-> m.parent_message_id,
     requires_response |-> m.requires_response,
     timeout_seconds |-> m.timeout_seconds,
     retry_count |-> m.retry_count,
     max_retries |-> m.max_retries]

\* as data.get(key, default) ignoring the mapping
DataGet_Default(data, key, default) == default

\* data.get(key, default)
DataGet(data, key, default) ==
    IF key \in DOMAIN data THEN data[key] ELSE default

\* message.py:91-108
from_dict(data) ==
    [message_id |-> data["message_id"],
     message_type |-> MessageTypeOf(data["message_type"]),
     sender_id |-> data["sender_id"],
     receiver_id |-> data["receiver_id"],
     priority |-> MessagePriorityOf(data["priority"]),
     timestamp |-> fromisoformat(data["timestamp"]),
     payload |-> data["payload"],
     metadata |-> DataGet(data, "metadata", EmptyMap),
     parent_message_id |-> DataGet(data, "parent_message_id", None),
     requires_response |-> DataGet(data, "requires_response", FALSE),
     timeout_seconds |-> DataGet(data, "timeout_seconds", DefaultTimeoutSeconds),
     retry_count |-> DataGet(data, "retry_count", 0),
     max_retries |-> DataGet(data, "max_retries", DefaultMaxRetries)]

(***************************************************************************)
(* The program state as one record, so that the code of one coroutine step *)
(* (which may call several methods) is a composition of functions on it.   *)
(***************************************************************************)
State ==
    [msgs |-> msgs, handlers |-> handlers,
     pending_responses |-> pending_responses, message_queue |-> message_queue,
     is_running |-> is_running, processing_task |-> processing_task,
     tasks |-> tasks, stops |-> stops, calls |-> calls, fanouts |-> fanouts,
     networks |-> networks, network_capabilities |-> network_capabilities,
     message_log |-> message_log, router_max_log_size |-> router_max_log_size,
     priority_queues |-> priority_queues,
     router_is_running |-> router_is_running,
     router_stops |-> router_stops,
     routed |-> routed,
     handling |-> handling,
     received |-> received, drained |-> drained, returned |-> returned]

Commit(t) ==
    /\ msgs' = t.msgs
    /\ handlers' = t.handlers
    /\ pending_responses' = t.pending_responses
    /\ message_queue' = t.message_queue
    /\ is_running' = t.is_running
    /\ processing_task' = t.processing_task
    /\ tasks' = t.tasks
    /\ stops' = t.stops
    /\ calls' = t.calls
    /\ fanouts' = t.fanouts
    /\ networks' = t.networks
    /\ network_capabilities' = t.network_capabilities
    /\ message_log' = t.message_log
    /\ router_max_log_size' = t.router_max_log_size
    /\ priority_queues' = t.priority_queues
    /\ router_is_running' = t.router_is_running
    /\ router_stops' = t.router_stops
    /\ routed' = t.routed
    /\ handling' = t.handling
    /\ received' = t.received
    /\ drained' = t.drained
    /\ returned' = t.returned

(***************************************************************************)
(* CommunicationProtocol.send_message (protocol.py:56-109).                *)
(* A call is the coroutine with the asyncio.Future of its current attempt: *)
(*   future: NONE | PENDING | FINISHED | CANCELLED                         *)
(*   timed_out: asyncio.wait_for has cancelled the future on timeout and   *)
(*              the coroutine has not yet resumed with TimeoutError        *)
(***************************************************************************)
\* as receive_message without the "if not future.done()" of line 130
FutureDone_Never(f) == FALSE

\* asyncio.Future.done()
FutureDone(f) == f \in {"FINISHED", "CANCELLED"}

\* as lines 68-86 without the assignment of line 68
SendIssue_KeepsSender(s, c) ==
    LET call == s.calls[c]
        m == call.message
        p == call.protocol
    IN  [s EXCEPT
            !.msgs[m].requires_response = IF call.wait THEN TRUE ELSE @,
            !.pending_responses[p] =
                IF call.wait THEN MapSet(@, s.msgs[m].message_id, c) ELSE @,
            !.message_queue[p] = Append(@, m),
            !.calls[c].future = IF call.wait THEN "PENDING" ELSE "NONE",
            !.calls[c].attempts = @ + 1]

\* lines 68-86: stamp the sender, create and register the future, enqueue
SendIssue(s, c) ==
    LET call == s.calls[c]
        m == call.message
        p == call.protocol
    IN  [s EXCEPT
            !.msgs[m].sender_id = p,
            !.msgs[m].requires_response = IF call.wait THEN TRUE ELSE @,
            !.pending_responses[p] =
                IF call.wait THEN MapSet(@, s.msgs[m].message_id, c) ELSE @,
            !.message_queue[p] = Append(@, m),
            !.calls[c].future = IF call.wait THEN "PENDING" ELSE "NONE",
            !.calls[c].attempts = @ + 1]

\* a new call of send_message, up to its first suspension point
SendMessage(s, p, m, wait, fanout) ==
    LET c == Len(s.calls) + 1
        call == [protocol |-> p, message |-> m, wait |-> wait,
                 pc |-> "wait_for", future |-> "NONE", timed_out |-> FALSE,
                 response |-> None, outcome |-> "running",
                 attempts |-> 0, timeouts |-> 0, fanout |-> fanout,
                 first_retry_count |-> s.msgs[m].retry_count,
                 at_stop |-> "no"]
        issued == SendIssue([s EXCEPT !.calls = Append(@, call)], c)
    IN  IF wait
        THEN issued
        ELSE \* line 109
             [issued EXCEPT !.calls[c].pc = "done", !.calls[c].outcome = "none"]

\* as lines 95-107 without the pop of line 100
SendOnTimeout_KeepsEntry(s, c) ==
    LET call == s.calls[c]
        m == call.message
        kept == [s EXCEPT !.calls[c].timed_out = FALSE,
                          !.calls[c].timeouts = @ + 1]
    IN  IF should_retry(s.msgs[m])
        THEN SendIssue([kept EXCEPT !.msgs[m] = increment_retry(@)], c)
        ELSE [kept EXCEPT !.calls[c].pc = "done", !.calls[c].outcome = "none"]

\* lines 95-107: the coroutine resumes with TimeoutError
SendOnTimeout(s, c) ==
    LET call == s.calls[c]
        m == call.message
        p == call.protocol
        popped == [s EXCEPT
                      !.pending_responses[p] = MapPop(@, s.msgs[m].message_id),
                      !.calls[c].timed_out = FALSE,
                      !.calls[c].timeouts = @ + 1]
    IN  IF should_retry(s.msgs[m])
        THEN SendIssue([popped EXCEPT !.msgs[m] = increment_retry(@)], c)
        ELSE [popped EXCEPT !.calls[c].pc = "done", !.calls[c].outcome = "none"]

(***************************************************************************)
(* CommunicationProtocol.receive_message (protocol.py:111-151).            *)
(***************************************************************************)
\* lines 125-128
IsPendingResponse(s, p, m) ==
    /\ s.msgs[m].parent_message_id # None
    /\ s.msgs[m].parent_message_id \in DOMAIN s.pending_responses[p]

Received(s, p, m, what) ==
    [s EXCEPT !.received = Append(@, [protocol |-> p, message |-> m, outcome |-> what])]

\* lines 129-132
ResolvePending(s, p, m) ==
    LET parent == s.msgs[m].parent_message_id
        c == s.pending_responses[p][parent]
        popped == [s EXCEPT !.pending_responses[p] = MapPop(@, parent)]
    IN  IF ~FutureDone(s.calls[c].future)
        THEN Received([popped EXCEPT !.calls[c].future = "FINISHED",
                                     !.calls[c].response = m],
                      p, m, "resolved")
        ELSE Received(popped, p, m, "dropped")

\* lines 135-151: the handler is awaited; it runs as its own invocation
Dispatch(s, p, m, caller) ==
    LET kind == s.handlers[p][s.msgs[m].message_type]
    IN  IF kind # NoHandler
        THEN Received([s EXCEPT !.handling = Append(@,
                          [protocol |-> p, message |-> m, kind |-> kind,
                           pc |-> "running", replied |-> FALSE,
                           raised |-> FALSE, caller |-> caller])],
                      p, m, "handler")
        ELSE Received(s, p, m, "no_handler")

\* as receive_message without the "return" of line 132
ReceiveMessage_NoReturn(s, p, m, caller) ==
    IF IsPendingResponse(s, p, m)
    THEN Dispatch(ResolvePending(s, p, m), p, m, caller)
    ELSE Dispatch(s, p, m, caller)

ReceiveMessage(s, p, m, caller) ==
    IF IsPendingResponse(s, p, m)
    THEN ResolvePending(s, p, m)
    ELSE Dispatch(s, p, m, caller)

(***************************************************************************)
(* MessageRouter (router.py).                                              *)
(***************************************************************************)
max_log_size == 10000

\* as _log_message keeping the oldest entries when it trims
LogMessage_KeepOldest(s, m) ==
    LET appended == Append(s.message_log, to_dict(s.msgs[m]))
    IN  [s EXCEPT !.message_log =
            IF Len(appended) > s.router_max_log_size
            THEN SubSeq(appended, 1, s.router_max_log_size)
            ELSE appended]

\* lines 182-192
LogMessage(s, m) ==
    LET appended == Append(s.message_log, to_dict(s.msgs[m]))
    IN  [s EXCEPT !.message_log =
            IF Len(appended) > s.router_max_log_size
            THEN SubSeq(appended, Len(appended) - s.router_max_log_size + 1,
                        Len(appended))
            ELSE appended]

\* as the test of line 168 without the comparison with the sender
IsBroadcastRecipient_Everyone(network_id, msg) == TRUE

\* as the test of line 168 failing for every network
IsBroadcastRecipient_Nobody(network_id, msg) == FALSE

\* line 168
IsBroadcastRecipient(network_id, msg) == network_id # msg.sender_id

\* lines 160-180; the copies are received in the order of _networks
RECURSIVE BroadcastFrom(_, _, _, _)
BroadcastFrom(s, m, i, caller) ==
    IF i > Len(s.networks)
    THEN s
    ELSE LET e == s.networks[i]
             orig == s.msgs[m]
         IN  IF IsBroadcastRecipient(e.key, orig)
             THEN LET copy == [Message(orig.message_type, orig.sender_id, e.key,
                                       orig.priority, orig.payload, None, FALSE,
                                       DefaultMaxRetries)
                                  EXCEPT !.metadata = orig.metadata]
                      s1 == [s EXCEPT !.msgs = Alloc(@, copy)]
                  IN  BroadcastFrom(ReceiveMessage(s1, e.value, Len(s1.msgs), caller),
                                    m, i + 1, caller)
             ELSE BroadcastFrom(s, m, i + 1, caller)

\* the value route_message returns (lines 97, 108, 111) once the
\* receive_message calls it awaits have returned
Returns(s, m, value) ==
    [s EXCEPT !.routed = Append(@, [message |-> m, result |-> value])]

\* as route_message reporting success for a receiver that is not registered
RouteMessage_FoundAnyway(s, m, caller) ==
    LET logged == LogMessage(s, m)
        receiver_id == s.msgs[m].receiver_id
    IN  IF receiver_id = Broadcast
        THEN Returns(BroadcastFrom(logged, m, 1, caller), m, TRUE)
        ELSE IF ~DictHas(s.networks, receiver_id)
             THEN Returns(logged, m, TRUE)
             ELSE Returns(ReceiveMessage(logged, DictGet(s.networks, receiver_id),
                                         m, caller), m, TRUE)

\* as route_message logging only the messages whose receiver is registered
RouteMessage_LogsIfFound(s, m, caller) ==
    LET logged == LogMessage(s, m)
        receiver_id == s.msgs[m].receiver_id
    IN  IF receiver_id = Broadcast
        THEN Returns(BroadcastFrom(logged, m, 1, caller), m, TRUE)
        ELSE IF ~DictHas(s.networks, receiver_id)
             THEN Returns(s, m, FALSE)
             ELSE Returns(ReceiveMessage(logged, DictGet(s.networks, receiver_id),
                                         m, caller), m, TRUE)

\* lines 83-111
RouteMessage(s, m, caller) ==
    LET logged == LogMessage(s, m)
        receiver_id == s.msgs[m].receiver_id
    IN  IF receiver_id = Broadcast
        THEN Returns(BroadcastFrom(logged, m, 1, caller), m, TRUE)
        ELSE IF ~DictHas(s.networks, receiver_id)
             THEN Returns(logged, m, FALSE)
             ELSE Returns(ReceiveMessage(logged, DictGet(s.networks, receiver_id),
                                         m, caller), m, TRUE)

\* as find_networks_by_capability without the membership test of line 80
find_networks_ignoring_capability(s, capability) ==
    [i \in DOMAIN s.network_capabilities |-> s.network_capabilities[i].key]

\* lines 68-81
find_networks_by_capability(s, capability) ==
    LET holders == SelectSeq(s.network_capabilities, LAMBDA e : capability \in e.value)
    IN  [i \in DOMAIN holders |-> holders[i].key]

\* as the request of lines 138-147 without parent_message_id
FanOutRequest_NoParent(orig, network_id) ==
    [Message(orig.message_type, orig.sender_id, network_id, orig.priority,
             orig.payload, None, TRUE, DefaultMaxRetries)
        EXCEPT !.metadata = orig.metadata]

\* lines 138-147: the request built for one capable network
FanOutRequest(orig, network_id) ==
    [Message(orig.message_type, orig.sender_id, network_id, orig.priority,
             orig.payload, orig.message_id, TRUE, DefaultMaxRetries)
        EXCEPT !.metadata = orig.metadata]

\* lines 136-148: one request per capable network, sent on that network's
\* own protocol
RECURSIVE FanOut(_, _, _, _)
FanOut(s, f, network_ids, i) ==
    IF i > Len(network_ids)
    THEN s
    ELSE LET network_id == network_ids[i]
             protocol == DictGet(s.networks, network_id)
             orig == s.msgs[s.fanouts[f].message]
             msg == FanOutRequest(orig, network_id)
             s1 == [s EXCEPT !.msgs = Alloc(@, msg)]
             s2 == SendMessage(s1, protocol, Len(s1.msgs), TRUE, f)
         IN  FanOut([s2 EXCEPT !.fanouts[f].children = Append(@, Len(s2.calls))],
                    f, network_ids, i + 1)

\* what asyncio.gather(return_exceptions=True) yields for a finished call
GatherResult(call) ==
    CASE call.outcome = "response" -> [kind |-> "Message", value |-> call.response]
      [] call.outcome = "none" -> [kind |-> "None", value |-> None]
      [] call.outcome = "cancelled" -> [kind |-> "CancelledError", value |-> None]

\* isinstance(r, Exception): asyncio.CancelledError derives from
\* BaseException, not from Exception (Python 3.8 and later)
IsInstanceOfException(r) == r.kind = "Exception"

\* line 155
IsValidResponse(r) == r.kind # "None" /\ ~IsInstanceOfException(r)

(***************************************************************************)
(* The state after construction (protocol.py:16-39, router.py:17-38).      *)
(***************************************************************************)
Init ==
    /\ msgs = <<>>
    /\ handlers = [a \in Agents |-> [ty \in MessageType |-> NoHandler]]
    /\ pending_responses = [a \in Agents |-> EmptyMap]
    /\ message_queue = [a \in Agents |-> <<>>]
    /\ is_running = [a \in Agents |-> FALSE]
    /\ processing_task = [a \in Agents |-> None]
    /\ tasks = <<>>
    /\ stops = <<>>
    /\ calls = <<>>
    /\ fanouts = <<>>
    /\ networks = <<>>
    /\ network_capabilities = <<>>
    /\ message_log = <<>>
    /\ router_max_log_size = max_log_size
    /\ priority_queues = [q \in MessagePriority |-> <<>>]
    /\ router_is_running = FALSE
    /\ router_stops = <<>>
    /\ routed = <<>>
    /\ handling = <<>>
    /\ received = <<>>
    /\ drained = <<>>
    /\ returned = <<>>

(***************************************************************************)
(* CommunicationProtocol: the operations and the steps of its coroutines.  *)
(***************************************************************************)
\* as register_handler keeping the handler registered first (setdefault)
RegisterHandler_KeepsFirst(p, type, kind) ==
    /\ handlers[p][type] # kind
    /\ handlers' = IF handlers[p][type] = NoHandler
                   THEN [handlers EXCEPT ![p][type] = kind]
                   ELSE handlers
    /\ UNCHANGED <<msgs, pending_responses, message_queue, is_running,
                   processing_task, tasks, stops, calls, fanouts, routerVars,
                   handling, received, drained, returned>>

\* protocol.py:41-54
RegisterHandler(p, type, kind) ==
    /\ handlers[p][type] # kind
    /\ handlers' = [handlers EXCEPT ![p][type] = kind]
    /\ UNCHANGED <<msgs, pending_responses, message_queue, is_running,
                   processing_task, tasks, stops, calls, fanouts, routerVars,
                   handling, received, drained, returned>>

\* a caller builds a Message and hands it to its protocol's send_message
Send(p, receiver, wait, maxr) ==
    LET m == Message("QUERY", Broadcast, receiver, DefaultPriority,
                     RequestPayload, None, FALSE, maxr)
        s1 == [State EXCEPT !.msgs = Alloc(@, m)]
        t == SendMessage(s1, p, Len(s1.msgs), wait, None)
    IN  Commit(t)

\* a caller hands a Message it holds to its protocol's send_message and
\* waits for the response
SendHeld(p, m) ==
    Commit(SendMessage(State, p, m, TRUE, None))

\* protocol.py:153-160
BroadcastMessage(p) ==
    LET m == Message("QUERY", Broadcast, p, DefaultPriority, RequestPayload,
                     None, FALSE, DefaultMaxRetries)
        s1 == [State EXCEPT !.msgs = Alloc(@, m)]
        n == Len(s1.msgs)
        t == SendMessage([s1 EXCEPT !.msgs[n].receiver_id = Broadcast],
                         p, n, FALSE, None)
    IN  Commit(t)

\* asyncio.wait_for (protocol.py:91-93): the timeout expires before the
\* future is done; wait_for cancels the future and waits for the
\* cancellation to complete before it raises TimeoutError
SendTimeout(c) ==
    /\ calls[c].pc = "wait_for"
    /\ calls[c].future = "PENDING"
    /\ calls' = [calls EXCEPT ![c].future = "CANCELLED", ![c].timed_out = TRUE]
    /\ UNCHANGED <<msgs, protocolVars, fanouts, routerVars, handling,
                   received, drained, returned>>

\* protocol.py:95-107
SendTimeoutResume(c) ==
    /\ calls[c].pc = "wait_for"
    /\ calls[c].timed_out
    /\ Commit(SendOnTimeout(State, c))

\* protocol.py:94
SendReturn(c) ==
    /\ calls[c].pc = "wait_for"
    /\ calls[c].future = "FINISHED"
    /\ calls' = [calls EXCEPT ![c].pc = "done", ![c].outcome = "response"]
    /\ UNCHANGED <<msgs, protocolVars, fanouts, routerVars, handling,
                   received, drained, returned>>

\* the future was cancelled by stop(): wait_for raises CancelledError, which
\* "except asyncio.TimeoutError" does not catch (protocol.py:90-95)
SendCancelled(c) ==
    /\ calls[c].pc = "wait_for"
    /\ calls[c].future = "CANCELLED"
    /\ ~calls[c].timed_out
    /\ calls' = [calls EXCEPT ![c].pc = "done", ![c].outcome = "cancelled"]
    /\ UNCHANGED <<msgs, protocolVars, fanouts, routerVars, handling,
                   received, drained, returned>>

\* the caller cancels the task that awaits send_message (Task.cancel, or an
\* enclosing asyncio.wait_for): wait_for cancels the future and
\* CancelledError leaves send_message (protocol.py:90-95)
CancelSend(c) ==
    /\ calls[c].pc = "wait_for"
    /\ calls[c].future = "PENDING"
    /\ calls[c].fanout = None
    /\ calls' = [calls EXCEPT ![c].pc = "done", ![c].outcome = "cancelled",
                              ![c].future = "CANCELLED"]
    /\ UNCHANGED <<msgs, protocolVars, fanouts, routerVars, handling,
                   received, drained, returned>>

\* a caller builds a Message and passes it to receive_message of protocol p
Receive(p, type, sender, parent) ==
    LET m == Message(type, sender, p, DefaultPriority, RequestPayload, parent,
                     FALSE, DefaultMaxRetries)
        s1 == [State EXCEPT !.msgs = Alloc(@, m)]
        t == ReceiveMessage(s1, p, Len(s1.msgs), None)
    IN  Commit(t)

\* as the test of line 164 never finding the protocol running
AlreadyRunning_Ignored(p) == FALSE

\* protocol.py:164
AlreadyRunning(p) == is_running[p]

\* protocol.py:162-169; a start() that finds the protocol running returns at
\* line 165 and changes nothing
Start(p) ==
    /\ ~AlreadyRunning(p)
    /\ is_running' = [is_running EXCEPT ![p] = TRUE]
    /\ tasks' = Append(tasks, [protocol |-> p, state |-> "running"])
    /\ processing_task' = [processing_task EXCEPT ![p] = Len(tasks) + 1]
    /\ UNCHANGED <<msgs, handlers, pending_responses, message_queue, stops,
                   calls, fanouts, routerVars, handling, received, drained,
                   returned>>

\* the calls of protocol p suspended in wait_for, with what stop() finds
MarkAtStop(cs, p, full) ==
    [c \in DOMAIN cs |->
        IF cs[c].protocol = p /\ cs[c].pc = "wait_for" /\ cs[c].at_stop = "no"
        THEN [cs[c] EXCEPT !.at_stop =
                 IF ~full THEN "not_running"
                 ELSE IF cs[c].timed_out THEN "timed_out"
                 ELSE IF cs[c].future = "FINISHED" THEN "finished"
                 ELSE "cancelled"]
        ELSE cs[c]]

\* what a returning stop() leaves behind
StopObservation(p, table, ts) ==
    [table_empty |-> DOMAIN table = {},
     task_running |-> \E i \in DOMAIN ts : ts[i].protocol = p /\ ts[i].state = "running"]

\* protocol.py:173-174: stop() on a protocol that is not running
StopNotRunning(p) ==
    /\ ~is_running[p]
    /\ stops' = Append(stops, [protocol |-> p, task |-> None, pc |-> "returned",
                              observed |-> StopObservation(p, pending_responses[p], tasks)])
    /\ calls' = MarkAtStop(calls, p, FALSE)
    /\ UNCHANGED <<msgs, handlers, pending_responses, message_queue, is_running,
                   processing_task, tasks, fanouts, routerVars, handling,
                   received, drained, returned>>

\* protocol.py:176-181: up to "await self._processing_task"
StopBegin(p) ==
    /\ is_running[p]
    /\ is_running' = [is_running EXCEPT ![p] = FALSE]
    /\ tasks' = [tasks EXCEPT ![processing_task[p]].state =
                    IF @ = "running" THEN "cancelling" ELSE @]
    /\ stops' = Append(stops, [protocol |-> p, task |-> processing_task[p],
                              pc |-> "await_task",
                              observed |-> StopObservation(p, EmptyMap, <<>>)])
    /\ UNCHANGED <<msgs, handlers, pending_responses, message_queue,
                   processing_task, calls, fanouts, routerVars, handling,
                   received, drained, returned>>

\* the cancelled draining task ends (CancelledError leaves _process_messages)
TaskCancelled(t) ==
    /\ tasks[t].state = "cancelling"
    /\ tasks' = [tasks EXCEPT ![t].state = "done"]
    /\ UNCHANGED <<msgs, handlers, pending_responses, message_queue, is_running,
                   processing_task, stops, calls, fanouts, routerVars, handling,
                   received, drained, returned>>

\* as stop() without the loop of lines 186-188
CancelPending_Skipped(cs, table) == cs

\* protocol.py:186-188
CancelPending(cs, table) ==
    [c \in DOMAIN cs |->
        IF (\E k \in DOMAIN table : table[k] = c) /\ ~FutureDone(cs[c].future)
        THEN [cs[c] EXCEPT !.future = "CANCELLED"]
        ELSE cs[c]]

\* protocol.py:190
ClearPending(table) == EmptyMap

\* protocol.py:182-191: stop() resumes once the task is done
StopFinish(k) ==
    LET p == stops[k].protocol
        cleared == ClearPending(pending_responses[p])
    IN  /\ stops[k].pc = "await_task"
        /\ tasks[stops[k].task].state = "done"
        /\ calls' = CancelPending(MarkAtStop(calls, p, TRUE), pending_responses[p])
        /\ pending_responses' = [pending_responses EXCEPT ![p] = cleared]
        /\ stops' = [stops EXCEPT ![k].pc = "returned",
                                  ![k].observed = StopObservation(p, cleared, tasks)]
        /\ UNCHANGED <<msgs, handlers, message_queue, is_running, processing_task,
                       tasks, fanouts, routerVars, handling, received, drained,
                       returned>>

\* protocol.py:195-207: the draining task takes the next message and logs it
ProcessMessages(t) ==
    LET p == tasks[t].protocol
    IN  /\ tasks[t].state = "running"
        /\ message_queue[p] # <<>>
        /\ message_queue' = [message_queue EXCEPT ![p] = Tail(@)]
        /\ drained' = Append(drained, Head(message_queue[p]))
        /\ UNCHANGED <<msgs, handlers, pending_responses, is_running,
                       processing_task, tasks, stops, calls, fanouts, routerVars,
                       handling, received, returned>>

(***************************************************************************)
(* Handlers: the callbacks receive_message awaits (protocol.py:136-146).   *)
(***************************************************************************)
ReplyPayload(p) == ReplyPayloads[CHOOSE i \in 1..NumAgents : AgentNames[i] = p]

\* a "reply" handler answers the message it was given through the router
HandlerReply(h) ==
    LET inv == handling[h]
        resp == create_response(msgs[inv.message], ReplyPayload(inv.protocol))
        s1 == [State EXCEPT !.msgs = Alloc(@, resp), !.handling[h].replied = TRUE]
        t == RouteMessage(s1, Len(s1.msgs), h)
    IN  /\ inv.pc = "running"
        /\ inv.kind = "reply"
        /\ ~inv.replied
        /\ Commit(t)

\* as receive_message without the "except Exception" clause of line 139
ExceptClause_Absent(exc) == FALSE

\* protocol.py:139: the clause catches what a handler raises
ExceptClause(exc) == exc = "Exception"

\* the handler returns or raises; receive_message catches the Exception
\* (protocol.py:139-146) and returns to its caller; an exception that is not
\* caught ends receive_message with it ("failed")
HandlerFinish(h) ==
    /\ handling[h].pc = "running"
    /\ handling[h].kind = "reply" => handling[h].replied
    /\ \A g \in DOMAIN handling : handling[g].caller = h => handling[g].pc = "done"
    /\ handling' = [handling EXCEPT
                        ![h].pc = IF handling[h].kind = "raise"
                                     /\ ~ExceptClause("Exception")
                                  THEN "failed" ELSE "done",
                        ![h].raised = (handling[h].kind = "raise")]
    /\ UNCHANGED <<msgs, protocolVars, calls, fanouts, routerVars, received,
                   drained, returned>>

(***************************************************************************)
(* MessageRouter: the operations and the steps of its coroutines.          *)
(***************************************************************************)
\* router.py:40-56; an agent registers its own protocol under its own id
RegisterNetwork(network_id, capabilities) ==
    /\ networks' = DictSet(networks, network_id, network_id)
    /\ network_capabilities' = DictSet(network_capabilities, network_id, capabilities)
    /\ <<networks, network_capabilities>>' # <<networks, network_capabilities>>
    /\ UNCHANGED <<msgs, protocolVars, calls, fanouts, message_log,
                   router_max_log_size, priority_queues, router_is_running,
                   router_stops, routed, handling,
                   received, drained, returned>>

\* as unregister_network without the pop of line 65
UnregisterNetwork_KeepsCapabilities(network_id) ==
    /\ DictHas(networks, network_id)
    /\ networks' = DictPop(networks, network_id)
    /\ UNCHANGED <<msgs, protocolVars, calls, fanouts, network_capabilities,
                   message_log, router_max_log_size, priority_queues,
                   router_is_running, router_stops, routed,
                   handling, received, drained, returned>>

\* router.py:58-66
UnregisterNetwork(network_id) ==
    /\ DictHas(networks, network_id) \/ DictHas(network_capabilities, network_id)
    /\ networks' = DictPop(networks, network_id)
    /\ network_capabilities' = DictPop(network_capabilities, network_id)
    /\ UNCHANGED <<msgs, protocolVars, calls, fanouts, message_log,
                   router_max_log_size, priority_queues, router_is_running,
                   router_stops, routed, handling,
                   received, drained, returned>>

\* router.py:194-201 and 219-243: start() creates the task that polls
\* _priority_queues.  No code puts a message on those queues, so every pass
\* of the task finds them empty (get_nowait raises QueueEmpty), sleeps and
\* changes no state.
RouterStart ==
    /\ ~router_is_running
    /\ router_is_running' = TRUE
    /\ UNCHANGED <<msgs, protocolVars, calls, fanouts, networks,
                   network_capabilities, message_log, router_max_log_size,
                   priority_queues, router_stops, routed, handling, received,
                   drained, returned>>

\* as stop() also emptying the registry
RouterStopBegin_ClearsRegistry ==
    /\ router_is_running
    /\ router_is_running' = FALSE
    /\ router_stops' = Append(router_stops,
            [pc |-> "await_task",
             in_flight |-> {f \in DOMAIN fanouts : fanouts[f].pc = "gather"}])
    /\ networks' = <<>>
    /\ network_capabilities' = <<>>
    /\ UNCHANGED <<msgs, protocolVars, calls, fanouts, message_log,
                   router_max_log_size, priority_queues, routed, handling,
                   received, drained, returned>>

\* router.py:203-213: stop() on a running router, up to "await
\* self._router_task"; the cancelled task runs no further pass.  The call
\* records the route_by_capability calls that are awaiting their responses.
RouterStopBegin ==
    /\ router_is_running
    /\ router_is_running' = FALSE
    /\ router_stops' = Append(router_stops,
            [pc |-> "await_task",
             in_flight |-> {f \in DOMAIN fanouts : fanouts[f].pc = "gather"}])
    /\ UNCHANGED <<msgs, protocolVars, calls, fanouts, networks,
                   network_capabilities, message_log, router_max_log_size,
                   priority_queues, routed, handling, received, drained,
                   returned>>

\* router.py:205-206: stop() on a router that is not running
RouterStopNotRunning ==
    /\ ~router_is_running
    /\ router_stops' = Append(router_stops,
            [pc |-> "returned",
             in_flight |-> {f \in DOMAIN fanouts : fanouts[f].pc = "gather"}])
    /\ UNCHANGED <<msgs, protocolVars, calls, fanouts, networks,
                   network_capabilities, message_log, router_max_log_size,
                   priority_queues, router_is_running, routed, handling,
                   received, drained, returned>>

\* router.py:214-217: the cancelled task has ended with CancelledError;
\* stop() resumes, logs and returns
RouterStopFinish(k) ==
    /\ router_stops[k].pc = "await_task"
    /\ router_stops' = [router_stops EXCEPT ![k].pc = "returned"]
    /\ UNCHANGED <<msgs, protocolVars, calls, fanouts, networks,
                   network_capabilities, message_log, router_max_log_size,
                   priority_queues, router_is_running, routed, handling,
                   received, drained, returned>>

\* router.py:224-226: sorted(MessagePriority, ..., reverse=True) starts here
HighestPriority ==
    CHOOSE q \in MessagePriority :
        \A r \in MessagePriority : MessagePriorityValue[r] <= MessagePriorityValue[q]

\* the levels below priority, by value
LowerPriorities(priority) ==
    {r \in MessagePriority : MessagePriorityValue[r] < MessagePriorityValue[priority]}

\* the level the sorted order visits after priority
NextLowerPriority(priority) ==
    CHOOSE q \in LowerPriorities(priority) :
        \A r \in LowerPriorities(priority) :
            MessagePriorityValue[r] <= MessagePriorityValue[q]

\* router.py:224-231, one priority level of a pass: get_nowait takes the
\* head of the level's queue, if it has one, and route_message is awaited
RECURSIVE ScanFrom(_, _)
ScanFrom(s, priority) ==
    LET after == IF s.priority_queues[priority] = <<>>
                 THEN s
                 ELSE LET m == Head(s.priority_queues[priority])
                          taken == [s EXCEPT !.priority_queues[priority] = Tail(@)]
                      IN  RouteMessage(taken, m, None)
    IN  IF LowerPriorities(priority) = {}
        THEN after
        ELSE ScanFrom(after, NextLowerPriority(priority))

\* router.py:219-243: one pass of the router's task, from the highest
\* priority to the lowest, up to its sleep; the receivers' protocols have no
\* suspending handler, so route_message does not suspend inside the pass
ProcessPriorityQueues ==
    /\ router_is_running
    /\ \E q \in MessagePriority : priority_queues[q] # <<>>
    /\ \A a \in Agents, ty \in MessageType : handlers[a][ty] = NoHandler
    /\ Commit(ScanFrom(State, HighestPriority))

\* a Message is put on the queue of its priority (router.py:31-34); the
\* router has no method that does it, the queue is reached as an attribute
PutPriority(receiver, priority) ==
    LET m == Message("QUERY", "caller", receiver, priority, RequestPayload,
                     None, FALSE, DefaultMaxRetries)
        s1 == [State EXCEPT !.msgs = Alloc(@, m)]
    IN  Commit([s1 EXCEPT !.priority_queues[priority] = Append(@, Len(s1.msgs))])

\* a caller builds a Message and passes it to route_message
Route(type, sender, receiver, parent) ==
    LET m == Message(type, sender, receiver, DefaultPriority, RequestPayload,
                     parent, FALSE, DefaultMaxRetries)
        s1 == [State EXCEPT !.msgs = Alloc(@, m)]
        t == RouteMessage(s1, Len(s1.msgs), None)
    IN  Commit(t)

\* router.py:113-151: route_by_capability on Message object m, up to
\* "await asyncio.gather"
route_by_capability(s, m, capability) ==
    LET network_ids == find_networks_by_capability(s, capability)
        f == Len(s.fanouts) + 1
        call == [message |-> m, capability |-> capability,
                 network_ids |-> network_ids, children |-> <<>>,
                 pc |-> "gather", result |-> <<>>]
        s2 == [s EXCEPT !.fanouts = Append(@, call)]
    IN  IF network_ids = <<>>
        THEN \* lines 127-132
             [s2 EXCEPT !.fanouts[f].pc = "done"]
        ELSE IF \E i \in DOMAIN network_ids : ~DictHas(s.networks, network_ids[i])
        THEN \* line 137 raises KeyError before any request is sent
             [s2 EXCEPT !.fanouts[f].pc = "raised"]
        ELSE FanOut(s2, f, network_ids, 1)

\* a caller builds a Message and passes it to route_by_capability
RouteByCapability(sender, capability) ==
    LET m == Message("QUERY", sender, Broadcast, DefaultPriority, RequestPayload,
                     None, FALSE, DefaultMaxRetries)
        s1 == [State EXCEPT !.msgs = Alloc(@, m)]
    IN  Commit(route_by_capability(s1, Len(s1.msgs), capability))

\* a caller passes a Message it holds to route_by_capability
RouteHeldByCapability(m, capability) ==
    Commit(route_by_capability(State, m, capability))

\* router.py:151-158: every request has ended; filter and return
GatherDone(f) ==
    LET children == fanouts[f].children
        responses == [i \in DOMAIN children |-> GatherResult(calls[children[i]])]
    IN  /\ fanouts[f].pc = "gather"
        /\ \A i \in DOMAIN children : calls[children[i]].pc = "done"
        /\ fanouts' = [fanouts EXCEPT ![f].pc = "done",
                                      ![f].result = SelectSeq(responses, IsValidResponse)]
        /\ UNCHANGED <<msgs, protocolVars, calls, routerVars, handling, received,
                       drained, returned>>

(***************************************************************************)
(* Correlation: one protocol endpoint, the requests it sends and waits     *)
(* for, and the messages it is given.                                      *)
(***************************************************************************)
Endpoint == AgentNames[1]
Peer == AgentNames[2]

CorrMaxMsgs == 3        \* Message objects constructed
CorrMaxCalls == 1       \* send_message calls made
CorrMaxHandling == 2    \* handler invocations started

NextCorrelation ==
    \/ \E ty \in MessageType : RegisterHandler(Endpoint, ty, "ok")
    \/ /\ Len(msgs) < CorrMaxMsgs
       /\ Len(calls) < CorrMaxCalls
       /\ \E x \in 0..MaxRetriesBound : Send(Endpoint, Peer, TRUE, x)
    \/ \E c \in DOMAIN calls : SendTimeout(c)
    \/ \E c \in DOMAIN calls : SendTimeoutResume(c)
    \/ \E c \in DOMAIN calls : SendReturn(c)
    \/ \E c \in DOMAIN calls : CancelSend(c)
    \/ /\ Len(msgs) < CorrMaxMsgs
       /\ Len(handling) < CorrMaxHandling
       /\ \E ty \in MessageType, m \in 0..Len(msgs) : Receive(Endpoint, ty, Peer, m)
    \/ \E h \in DOMAIN handling : HandlerFinish(h)

SpecCorrelation == Init /\ [][NextCorrelation]_vars

\* the receive_message invocations of one step
NewReceived == {received'[i] : i \in (Len(received) + 1)..Len(received')}

\* message m answers a request of protocol p whose correlation entry is in
\* the table
MatchesEntry(p, m) ==
    /\ msgs'[m].parent_message_id # None
    /\ msgs'[m].parent_message_id \in DOMAIN pending_responses[p]

\* C6 as stated: a message whose parent_id has an entry in the correlation
\* table always resolves that entry's handle with the message, and no
\* handler is invoked for it.
C6_AsStated ==
    [][\A r \in NewReceived :
          MatchesEntry(r.protocol, r.message) =>
              LET c == pending_responses[r.protocol][msgs'[r.message].parent_message_id]
              IN  /\ handling' = handling
                  /\ calls'[c].future = "FINISHED"
                  /\ calls'[c].response = r.message]_vars

\* C6 (amended): when receive is given a message whose parent_id has an
\* entry in the correlation table, it removes the entry and invokes no
\* handler, whatever the message's type and the registered handlers; it
\* resolves the entry's handle with the message if the handle is not yet
\* done, and leaves a handle that is already done (cancelled by a timeout
\* or by its caller) as it is, dropping the message.
C6_ResponseBypassesHandlers ==
    [][\A r \in NewReceived :
          MatchesEntry(r.protocol, r.message) =>
              LET parent == msgs'[r.message].parent_message_id
                  c == pending_responses[r.protocol][parent]
              IN  /\ handling' = handling
                  /\ parent \notin DOMAIN pending_responses'[r.protocol]
                  /\ IF calls[c].future = "PENDING"
                     THEN /\ calls'[c].future = "FINISHED"
                          /\ calls'[c].response = r.message
                     ELSE calls'[c] = calls[c]]_vars

\* a response resolved a request although a handler is registered for its type
C6_Witness ==
    \E i \in DOMAIN received :
        /\ received[i].outcome = "resolved"
        /\ handlers[received[i].protocol][msgs[received[i].message].message_type] # NoHandler
        /\ \E c \in DOMAIN calls : calls[c].response = received[i].message

\* a request of protocol p with identifier id has been resolved by a response
Resolved(p, id) ==
    \E c \in DOMAIN calls :
        /\ calls[c].protocol = p
        /\ msgs[calls[c].message].message_id = id
        /\ calls[c].response # None

\* a handle that is done keeps its state and its value
ResolvedAtMostOnce ==
    \A c \in DOMAIN calls :
        (calls[c].future \in {"FINISHED", "CANCELLED"} /\ calls'[c].attempts = calls[c].attempts)
            => /\ calls'[c].future = calls[c].future
               /\ calls'[c].response = calls[c].response

\* C7 as stated: a handle is resolved at most once, and a second message
\* with the same parent_id after the resolution changes neither the value
\* the caller obtains nor the protocol's state, and reaches no handler.
C7_AsStated ==
    [][/\ ResolvedAtMostOnce
       /\ \A r \in NewReceived :
             Resolved(r.protocol, msgs'[r.message].parent_message_id) =>
                 /\ calls' = calls
                 /\ UNCHANGED protocolVars
                 /\ handling' = handling]_vars

\* C7 (amended): a handle is resolved at most once, and a second message
\* with the same parent_id that arrives after the resolution changes
\* neither the value the caller obtains nor the protocol's state; it
\* matches no correlation any more and is dispatched as an ordinary
\* message: the handler registered for its type, if any, is invoked.
C7_SecondResponseIsOrdinary ==
    [][/\ ResolvedAtMostOnce
       /\ \A r \in NewReceived :
             Resolved(r.protocol, msgs'[r.message].parent_message_id) =>
                 /\ calls' = calls
                 /\ UNCHANGED protocolVars
                 /\ IF handlers[r.protocol][msgs'[r.message].message_type] # NoHandler
                    THEN /\ Len(handling') = Len(handling) + 1
                         /\ handling'[Len(handling')].message = r.message
                         /\ handling'[Len(handling')].protocol = r.protocol
                    ELSE handling' = handling]_vars

\* a second message with the parent_id of a resolved request was handled
C7_Witness ==
    \E i, j \in DOMAIN received :
        /\ i < j
        /\ received[i].outcome = "resolved"
        /\ msgs[received[j].message].parent_message_id
               = msgs[received[i].message].parent_message_id
        /\ received[j].outcome = "handler"

(***************************************************************************)
(* Lifecycle: one protocol endpoint that is started and stopped while      *)
(* requests wait for their responses.                                      *)
(***************************************************************************)
LifeMaxMsgs == 2        \* Message objects constructed
LifeMaxStarts == 2      \* start() calls that create a draining task
LifeMaxStops == 1       \* stop() calls made
LifeRetries == {0, 1}   \* the max_retries a caller chooses

NextLifecycle ==
    \/ /\ Len(msgs) < LifeMaxMsgs
       /\ \E x \in LifeRetries : Send(Endpoint, Peer, TRUE, x)
    \/ \E c \in DOMAIN calls : SendTimeout(c)
    \/ \E c \in DOMAIN calls : SendTimeoutResume(c)
    \/ \E c \in DOMAIN calls : SendReturn(c)
    \/ \E c \in DOMAIN calls : SendCancelled(c)
    \/ \E c \in DOMAIN calls : CancelSend(c)
    \/ /\ Len(msgs) < LifeMaxMsgs
       /\ \E m \in 1..Len(msgs) : Receive(Endpoint, "QUERY_RESPONSE", Peer, m)
    \/ Len(tasks) < LifeMaxStarts /\ Start(Endpoint)
    \/ Len(stops) < LifeMaxStops /\ StopNotRunning(Endpoint)
    \/ Len(stops) < LifeMaxStops /\ StopBegin(Endpoint)
    \/ \E t \in DOMAIN tasks : TaskCancelled(t)
    \/ \E k \in DOMAIN stops : StopFinish(k)

SpecLifecycle == Init /\ [][NextLifecycle]_vars

\* C8: at any point where no send(wait_for_response=true) call for message
\* id i is in progress on a protocol, that protocol's correlation table has
\* no entry for i.
C8_EntryOnlyWhileSendInProgress ==
    \A p \in Agents : \A i \in DOMAIN pending_responses[p] :
        \E c \in DOMAIN calls :
            /\ calls[c].protocol = p
            /\ msgs[calls[c].message].message_id = i
            /\ calls[c].wait
            /\ calls[c].pc = "wait_for"

\* C9 as stated: whenever stop() returns, no draining task of the protocol
\* is running, its correlation table is empty, and every send that was
\* suspended waiting for a correlation ends by observing cancellation.
C9_AsStated ==
    /\ \A k \in DOMAIN stops :
          stops[k].pc = "returned" =>
              /\ stops[k].observed.table_empty
              /\ ~stops[k].observed.task_running
    /\ \A c \in DOMAIN calls :
          (calls[c].at_stop # "no" /\ calls[c].pc = "done") =>
              calls[c].outcome = "cancelled"

\* What stop() does achieve: whenever a stop() call that found the protocol running
\* returns, the draining task it cancelled has ended, the correlation table
\* is empty, and every send whose correlation handle was still pending when
\* stop() cancelled the handles ends by observing cancellation, never a
\* response value and never the absent result.
C9_StopCancelsPending ==
    /\ \A k \in DOMAIN stops :
          (stops[k].pc = "returned" /\ stops[k].task # None) =>
              /\ stops[k].observed.table_empty
              /\ tasks[stops[k].task].state = "done"
    /\ \A c \in DOMAIN calls :
          calls[c].at_stop = "cancelled" =>
              /\ calls[c].future = "CANCELLED"
              /\ calls[c].response = None
              /\ calls[c].pc = "done" => calls[c].outcome = "cancelled"

\* a running protocol was stopped while a send waited, and the send ended
C9_Witness ==
    /\ \E k \in DOMAIN stops : stops[k].pc = "returned" /\ stops[k].task # None
    /\ \E c \in DOMAIN calls :
          /\ calls[c].at_stop = "cancelled"
          /\ calls[c].pc = "done"
          /\ calls[c].outcome = "cancelled"

(***************************************************************************)
(* Retry: requests to a destination that never replies.  Nothing is handed *)
(* to receive_message, so the only events are the timers of wait_for.      *)
(* Fairness: a timer that is due fires, and the event loop resumes a       *)
(* coroutine whose future is done.                                         *)
(***************************************************************************)
RetryMaxCalls == 2      \* send_message calls made

NextRetry ==
    \/ /\ Len(calls) < RetryMaxCalls
       /\ \E x \in 0..MaxRetriesBound : Send(Endpoint, Peer, TRUE, x)
    \/ \E c \in DOMAIN calls : SendTimeout(c)
    \/ \E c \in DOMAIN calls : SendTimeoutResume(c)

SendProgress ==
    \E c \in DOMAIN calls : SendTimeout(c) \/ SendTimeoutResume(c)

RetryFairness == WF_vars(SendProgress)

SpecRetry == Init /\ [][NextRetry]_vars /\ RetryFairness

\* a send that started with retry_count = 0 and returned the absent result
\* did so after max_retries + 1 attempts that each timed out
AbsentOnlyAfterBudget ==
    \A c \in DOMAIN calls :
        (/\ calls[c].wait
         /\ calls[c].first_retry_count = 0
         /\ calls[c].pc = "done"
         /\ calls[c].outcome = "none")
            => /\ calls[c].attempts = msgs[calls[c].message].max_retries + 1
               /\ calls[c].timeouts = calls[c].attempts
               /\ msgs[calls[c].message].retry_count = msgs[calls[c].message].max_retries

\* every send_message call made so far has returned or raised
AllSendsReturned == \A c \in DOMAIN calls : calls[c].pc = "done"

\* C3: a send(m, wait_for_response=true) with m.retry_count = 0 whose
\* destination never replies returns the absent result only after exactly
\* max_retries + 1 attempts have each timed out, with m.retry_count =
\* m.max_retries on return, and it always terminates.
C3_RetryBudget ==
    /\ []AbsentOnlyAfterBudget
    /\ []<>AllSendsReturned

\* a send with a retry budget returned the absent result
C3_Witness ==
    \E c \in DOMAIN calls :
        /\ calls[c].pc = "done"
        /\ calls[c].outcome = "none"
        /\ msgs[calls[c].message].max_retries >= 1
        /\ calls[c].timeouts = msgs[calls[c].message].max_retries + 1

(***************************************************************************)
(* Delivery: agents registered with the router, messages handed to a       *)
(* protocol's send_message, the draining task of that protocol, the        *)
(* router's task, and messages handed to the router's route_message.       *)
(* Fairness: the draining task is resumed when its queue is not empty.     *)
(***************************************************************************)
DelivMaxMsgs == 3       \* Message objects constructed by callers

NextDelivery ==
    \/ \E a \in Agents : RegisterNetwork(a, {})
    \/ RouterStart
    \/ /\ Len(msgs) < DelivMaxMsgs
       /\ \E a \in Agents : Send(Endpoint, a, FALSE, DefaultMaxRetries)
    \/ Start(Endpoint)
    \/ \E t \in DOMAIN tasks : ProcessMessages(t)
    \/ /\ Len(msgs) < DelivMaxMsgs
       /\ \E a \in Agents : Route("QUERY", Endpoint, a, None)

DeliveryFairness == WF_vars(\E t \in DOMAIN tasks : ProcessMessages(t))

SpecDelivery == Init /\ [][NextDelivery]_vars /\ DeliveryFairness

\* message i was taken from its sender's delivery queue by the draining task
\* and is addressed to an agent registered with the router
DrainedForRegistered(i) ==
    /\ \E k \in DOMAIN drained : drained[k] = i
    /\ DictHas(networks, msgs[i].receiver_id)

\* receive_message of the addressed agent's protocol was invoked with
\* message i, and the audit log has its record
Delivered(i) ==
    /\ i \in DOMAIN msgs
    /\ DictHas(networks, msgs[i].receiver_id)
    /\ \E k \in DOMAIN received :
          /\ received[k].message = i
          /\ received[k].protocol = DictGet(networks, msgs[i].receiver_id)
    /\ \E k \in DOMAIN message_log : message_log[k].message_id = i

\* C2 as stated: a message handed to send_message and addressed to a
\* registered agent, once drained from the sender's delivery queue, is
\* eventually handed to receive_message of the addressed agent's protocol
\* and recorded in the audit log.
C2_AsStated ==
    \A i \in 1..DelivMaxMsgs : [](DrainedForRegistered(i) => <>Delivered(i))

(***************************************************************************)
(* Broadcast: agents registered with the router, their handlers, and       *)
(* broadcasts handed to a protocol's broadcast_message or to the router's  *)
(* route_message.                                                          *)
(***************************************************************************)
BcastMaxMsgs == 2       \* Message objects constructed by callers

NextBroadcast ==
    \/ \E a \in Agents : RegisterNetwork(a, {})
    \/ \E a \in Agents : RegisterHandler(a, "QUERY", "ok")
    \/ /\ Len(msgs) < BcastMaxMsgs
       /\ \E a \in Agents : BroadcastMessage(a)
    \/ /\ Len(msgs) < BcastMaxMsgs
       /\ \E a \in Agents : Route("QUERY", a, Broadcast, None)
    \/ \E h \in DOMAIN handling : HandlerFinish(h)

SpecBroadcast == Init /\ [][NextBroadcast]_vars

\* the step is a route_message call for a broadcast message
RoutesBroadcast ==
    /\ Len(message_log') = Len(message_log) + 1
    /\ message_log'[Len(message_log')].receiver_id = Broadcast

\* C10: a route_message call for a broadcast whose sender_id is A invokes
\* receive_message on the protocol of no agent registered as A, whatever
\* agents are registered.
C10_BroadcastSkipsSender ==
    [][RoutesBroadcast =>
          \A e \in NewReceived :
              e.protocol # message_log'[Len(message_log')].sender_id]_vars

\* a broadcast from a registered sender was routed and another registered
\* agent was handed its copy
C10_Witness ==
    \E k \in DOMAIN message_log :
        /\ message_log[k].receiver_id = Broadcast
        /\ DictHas(networks, message_log[k].sender_id)
        /\ \E j \in DOMAIN received :
              /\ msgs[received[j].message].sender_id = message_log[k].sender_id
              /\ received[j].protocol # message_log[k].sender_id
              /\ msgs[received[j].message].message_id > message_log[k].message_id

(***************************************************************************)
(* Fan-out: agents registered with the capability "search", each with a    *)
(* handler that answers what it is given, the draining tasks of their      *)
(* protocols, the router's task, requests routed to an agent directly and  *)
(* requests routed by capability.                                          *)
(***************************************************************************)
FanMaxMsgs == 4         \* Message objects constructed by callers and fan-outs

\* every registered agent has its answering handler
AllAnswer == \A a \in DictKeys(networks) : handlers[a]["QUERY"] = "reply"

NextFanout ==
    \/ \E a \in Agents : RegisterHandler(a, "QUERY", "reply")
    \/ \E a \in Agents :
          handlers[a]["QUERY"] = "reply" /\ RegisterNetwork(a, {"search"})
    \/ RouterStart
    \/ Start(Endpoint)
    \/ \E t \in DOMAIN tasks : ProcessMessages(t)
    \/ /\ Len(msgs) + NumAgents < FanMaxMsgs
       /\ AllAnswer
       /\ RouteByCapability("caller", "search")
    \/ \E c \in DOMAIN calls : SendTimeout(c)
    \/ \E c \in DOMAIN calls : SendTimeoutResume(c)
    \/ \E f \in DOMAIN fanouts : GatherDone(f)
    \/ /\ Len(msgs) < FanMaxMsgs
       /\ \E a \in Agents : Route("QUERY", "caller", a, None)
    \/ \E h \in DOMAIN handling : HandlerReply(h)
    \/ \E h \in DOMAIN handling : HandlerFinish(h)

SpecFanout == Init /\ [][NextFanout]_vars

\* the payloads of the responses route_by_capability returned
ResultPayloads(f) ==
    {msgs[fanouts[f].result[i].value].payload :
        i \in {j \in DOMAIN fanouts[f].result : fanouts[f].result[j].kind = "Message"}}

\* C1 as stated: when two agents are registered with the capability and each
\* has a handler that answers every request it is given with its own
\* payload, route_by_capability returns exactly two responses, whose
\* payloads are the two agents' payloads.
C1_AsStated ==
    \A f \in DOMAIN fanouts :
        (fanouts[f].pc = "done" /\ Len(fanouts[f].network_ids) = 2) =>
            /\ Len(fanouts[f].result) = 2
            /\ \A i \in DOMAIN fanouts[f].result : fanouts[f].result[i].kind = "Message"
            /\ ResultPayloads(f) =
                  {ReplyPayload(fanouts[f].network_ids[i]) : i \in {1, 2}}

(***************************************************************************)
(* Gather: requests routed by capability, responses handed to the router's *)
(* route_message, the timers of the requests, and one capable agent's      *)
(* protocol being started and stopped.                                     *)
(***************************************************************************)
GatherMaxMsgs == 5      \* Message objects constructed by callers and fan-outs
GatherMaxStarts == 1    \* start() calls made

NextGather ==
    \/ \E a \in Agents : RegisterNetwork(a, {"search"})
    \/ /\ Len(msgs) + NumAgents < GatherMaxMsgs
       /\ RouteByCapability("caller", "search")
    \/ /\ Len(msgs) < GatherMaxMsgs
       /\ \E a \in Agents, m \in 1..Len(msgs) : Route("QUERY_RESPONSE", a, a, m)
    \/ \E c \in DOMAIN calls : SendTimeout(c)
    \/ \E c \in DOMAIN calls : SendTimeoutResume(c)
    \/ \E c \in DOMAIN calls : SendReturn(c)
    \/ \E c \in DOMAIN calls : SendCancelled(c)
    \/ Len(tasks) < GatherMaxStarts /\ Start(Endpoint)
    \/ StopBegin(Endpoint)
    \/ \E t \in DOMAIN tasks : TaskCancelled(t)
    \/ \E k \in DOMAIN stops : StopFinish(k)
    \/ \E f \in DOMAIN fanouts : GatherDone(f)

SpecGather == Init /\ [][NextGather]_vars

\* the requests of fan-out f that a response resolved
Responded(f) ==
    {i \in DOMAIN fanouts[f].children :
        calls[fanouts[f].children[i]].outcome = "response"}

\* C4 as stated: route_by_capability with N capable agents, K of whose
\* requests were resolved by a response and N - K of which never got one,
\* returns exactly K responses, one per responding agent.
C4_AsStated ==
    \A f \in DOMAIN fanouts :
        fanouts[f].pc = "done" =>
            /\ Len(fanouts[f].result) = Cardinality(Responded(f))
            /\ \A i \in Responded(f) :
                  \E j \in DOMAIN fanouts[f].result :
                      fanouts[f].result[j].value = calls[fanouts[f].children[i]].response

\* C5 as stated: every element of the list route_by_capability returns is a
\* response message that resolved one of its requests; a request that ended
\* in a timeout or in a cancellation contributes no element.
C5_AsStated ==
    \A f \in DOMAIN fanouts :
        fanouts[f].pc = "done" =>
            \A j \in DOMAIN fanouts[f].result :
                /\ fanouts[f].result[j].kind = "Message"
                /\ \E i \in Responded(f) :
                      calls[fanouts[f].children[i]].response = fanouts[f].result[j].value

\* without a stop() the count of C4 holds: a request that timed out
\* contributes None, which the filter removes
CountWithoutStop == stops = <<>> => C4_AsStated

\* the receive_message invocations of the step, in order
ReceivedInStep == SubSeq(received', Len(received) + 1, Len(received'))

\* the ids of the registered agents other than sender, in registry order
OtherAgents(sender) ==
    LET others == SelectSeq(networks, LAMBDA e : e.key # sender)
    IN  [i \in DOMAIN others |-> others[i].key]

\* C11: route_message on a broadcast message invokes receive_message exactly
\* once on every registered agent other than the sender, each time with a
\* new message whose sender_id is the original sender_id and whose
\* receiver_id is the recipient's id, and returns true, also when there is
\* no recipient.
C11_BroadcastCopies ==
    [][RoutesBroadcast =>
          LET orig == message_log'[Len(message_log')]
              recipients == OtherAgents(orig.sender_id)
          IN  /\ Len(ReceivedInStep) = Len(recipients)
              /\ \A i \in DOMAIN recipients :
                    /\ ReceivedInStep[i].protocol = DictGet(networks, recipients[i])
                    /\ ReceivedInStep[i].message > Len(msgs)
                    /\ ReceivedInStep[i].message # orig.message_id
                    /\ msgs'[ReceivedInStep[i].message].sender_id = orig.sender_id
                    /\ msgs'[ReceivedInStep[i].message].receiver_id = recipients[i]
                    /\ msgs'[ReceivedInStep[i].message].payload = orig.payload
              /\ routed' = Append(routed, [message |-> orig.message_id,
                                           result |-> TRUE])]_vars

\* a broadcast was routed and returned true when every agent was registered,
\* and another was routed and returned true when there was no recipient
C11_Witness ==
    /\ Len(networks) = NumAgents
    /\ Len(routed) >= 2
    /\ \A k \in {1, 2} :
          /\ msgs[routed[k].message].receiver_id = Broadcast
          /\ routed[k].result
    /\ received # <<>>
    /\ \A j \in DOMAIN received : received[j].message > routed[2].message

(***************************************************************************)
(* Isolation: agents registered with the router, handlers that return and  *)
(* handlers that raise, and messages, directed and broadcast, handed to    *)
(* route_message.                                                          *)
(***************************************************************************)
IsoMaxMsgs == 2         \* Message objects constructed by callers

\* the first agent's handler raises, the other agents' handlers return
IsoHandler(a) == IF a = Endpoint THEN "raise" ELSE "ok"

NextIsolation ==
    \/ \E a \in Agents : RegisterNetwork(a, {})
    \/ \E a \in Agents : RegisterHandler(a, "QUERY", IsoHandler(a))
    \/ /\ Len(msgs) < IsoMaxMsgs
       /\ \E r \in Agents \cup {Broadcast} : Route("QUERY", "caller", r, None)
    \/ \E h \in DOMAIN handling : HandlerFinish(h)

SpecIsolation == Init /\ [][NextIsolation]_vars

\* every handler invocation that ended, ended inside receive_message, which
\* returned normally, and the route_message call that delivered the message
\* (directly, or as the copy of a broadcast) returns true
FailuresContained ==
    \A h \in DOMAIN handling :
        /\ handling[h].pc \in {"running", "done"}
        /\ \E k \in DOMAIN routed :
              /\ routed[k].result
              /\ routed[k].message <= handling[h].message
              /\ \A j \in DOMAIN routed :
                    routed[j].message <= handling[h].message =>
                        routed[j].message <= routed[k].message

\* a handler of protocol p raised earlier
RaisedOn(p) ==
    \E h \in DOMAIN handling : handling[h].protocol = p /\ handling[h].raised

\* every message the step hands to a protocol that has a handler for its
\* type starts that handler, whatever handlers raised before
StillDispatched ==
    \A i \in DOMAIN ReceivedInStep :
        LET e == ReceivedInStep[i]
        IN  handlers[e.protocol][msgs'[e.message].message_type] # NoHandler =>
                /\ e.outcome = "handler"
                /\ \E h \in (Len(handling) + 1)..Len(handling') :
                      /\ handling'[h].protocol = e.protocol
                      /\ handling'[h].message = e.message
                      /\ handling'[h].pc = "running"

\* C12: a failure raised by a handler is contained in receive_message:
\* receive_message returns normally, the route_message call for the message
\* reports success, the other recipients of the same broadcast still have
\* their handlers invoked, and later messages to the same protocol are
\* still dispatched.
C12_HandlerFailureContained ==
    /\ []FailuresContained
    /\ [][StillDispatched]_vars

\* a handler raised on a directly routed message; a later broadcast was
\* still dispatched to that protocol, whose handler raised again, and to the
\* other recipient
C12_Witness ==
    /\ Len(routed) = 2 /\ routed[1].result /\ routed[2].result
    /\ msgs[routed[2].message].receiver_id = Broadcast
    /\ \E h1, h2, h3 \in DOMAIN handling :
          /\ handling[h1].message = routed[1].message
          /\ handling[h1].raised /\ handling[h1].pc = "done"
          /\ handling[h2].protocol = handling[h1].protocol
          /\ handling[h2].message > routed[2].message
          /\ handling[h2].raised /\ handling[h2].pc = "done"
          /\ handling[h3].protocol # handling[h1].protocol
          /\ handling[h3].message > routed[2].message

\* the step is a route_message call for a message addressed to an agent id
\* that is not registered
RoutesToUnknown ==
    /\ Len(routed') = Len(routed) + 1
    /\ msgs'[routed'[Len(routed')].message].receiver_id # Broadcast
    /\ ~DictHas(networks, msgs'[routed'[Len(routed')].message].receiver_id)

\* C13: route_message for a message addressed to an agent id that is not
\* registered returns false, appends exactly one audit-log entry (the
\* message's), invokes receive_message on no protocol and leaves the
\* registry unchanged.
C13_UnknownDestination ==
    [][RoutesToUnknown =>
          /\ routed'[Len(routed')].result = FALSE
          /\ message_log' = Append(message_log,
                                   to_dict(msgs'[routed'[Len(routed')].message]))
          /\ received' = received
          /\ handling' = handling
          /\ networks' = networks
          /\ network_capabilities' = network_capabilities]_vars

\* a message for an unregistered agent was routed while another agent was
\* registered with a handler
C13_Witness ==
    \E k \in DOMAIN routed :
        /\ ~routed[k].result
        /\ msgs[routed[k].message].receiver_id \in Agents
        /\ ~DictHas(networks, msgs[routed[k].message].receiver_id)
        /\ networks # <<>>
        /\ \E a \in DictKeys(networks) : handlers[a]["QUERY"] # NoHandler
        /\ message_log[Len(message_log)].message_id = routed[k].message

(***************************************************************************)
(* Registry: agents registered with any capability sets and unregistered   *)
(* again, and messages routed directly, by broadcast and by capability.    *)
(***************************************************************************)
RegMaxMsgs == 2         \* Message objects constructed by callers and fan-outs

\* the capability sets agents register with
RegCapabilitySets == {{"search"}, {"search", "plan"}}

NextRegistry ==
    \/ \E a \in Agents, caps \in RegCapabilitySets : RegisterNetwork(a, caps)
    \/ \E a \in Agents : UnregisterNetwork(a)
    \/ /\ Len(msgs) < RegMaxMsgs
       /\ \E r \in {Endpoint, Broadcast} : Route("QUERY", "caller", r, None)
    \/ /\ Len(msgs) < RegMaxMsgs
       /\ \E tag \in Capabilities : RouteByCapability("caller", tag)

SpecRegistry == Init /\ [][NextRegistry]_vars

\* the step is a route_by_capability call for a tag that no registered agent
\* holds
FansOutToNobody ==
    /\ Len(fanouts') = Len(fanouts) + 1
    /\ \A i \in DOMAIN network_capabilities :
          fanouts'[Len(fanouts')].capability \notin network_capabilities[i].value

\* C14: route_by_capability for a tag held by no registered agent returns
\* the empty list in the same step: it creates and enqueues no request,
\* registers no correlation, starts no send and raises no error.
C14_NoHolderReturnsEmpty ==
    [][FansOutToNobody =>
          /\ fanouts'[Len(fanouts')].pc = "done"
          /\ fanouts'[Len(fanouts')].result = <<>>
          /\ fanouts'[Len(fanouts')].children = <<>>
          /\ Len(msgs') = Len(msgs) + 1
          /\ calls' = calls
          /\ message_queue' = message_queue
          /\ pending_responses' = pending_responses
          /\ received' = received]_vars

\* a tag that no agent holds was asked for while an agent holding another
\* tag was registered
C14_Witness ==
    \E f \in DOMAIN fanouts :
        /\ fanouts[f].pc = "done"
        /\ fanouts[f].network_ids = <<>>
        /\ fanouts[f].result = <<>>
        /\ \E i \in DOMAIN network_capabilities :
              /\ network_capabilities[i].value # {}
              /\ fanouts[f].capability \notin network_capabilities[i].value
        /\ calls = <<>>

(***************************************************************************)
(* Audit log: a router whose _max_log_size is small, and messages handed   *)
(* to route_message.                                                       *)
(***************************************************************************)
LogMaxCapacity == 2     \* largest _max_log_size configured
LogMaxMsgs == 4         \* route_message calls made

InitAuditLog ==
    /\ msgs = <<>>
    /\ handlers = [a \in Agents |-> [ty \in MessageType |-> NoHandler]]
    /\ pending_responses = [a \in Agents |-> EmptyMap]
    /\ message_queue = [a \in Agents |-> <<>>]
    /\ is_running = [a \in Agents |-> FALSE]
    /\ processing_task = [a \in Agents |-> None]
    /\ tasks = <<>>
    /\ stops = <<>>
    /\ calls = <<>>
    /\ fanouts = <<>>
    /\ networks = <<>>
    /\ network_capabilities = <<>>
    /\ message_log = <<>>
    /\ router_max_log_size \in 1..LogMaxCapacity
    /\ priority_queues = [q \in MessagePriority |-> <<>>]
    /\ router_is_running = FALSE
    /\ router_stops = <<>>
    /\ routed = <<>>
    /\ handling = <<>>
    /\ received = <<>>
    /\ drained = <<>>
    /\ returned = <<>>

NextAuditLog ==
    \/ \E a \in Agents : RegisterNetwork(a, {})
    \/ /\ Len(routed) < LogMaxMsgs
       /\ \E r \in {Endpoint, Broadcast} : Route("QUERY", "caller", r, None)

SpecAuditLog == InitAuditLog /\ [][NextAuditLog]_vars

\* the snapshots of the last k messages handed to route_message, in order
LastRouted(k) ==
    [i \in 1..k |-> to_dict(msgs[routed[Len(routed) - k + i].message])]

\* C15: after any sequence of route_message calls the audit log holds at
\* most _max_log_size entries, and it is the snapshots of the most recent
\* min(n, _max_log_size) routed messages in routing order.
C15_AuditLogIsMostRecent ==
    /\ Len(message_log) <= router_max_log_size
    /\ message_log =
          LastRouted(IF Len(routed) < router_max_log_size
                     THEN Len(routed) ELSE router_max_log_size)

\* more messages were routed than the log holds
C15_Witness ==
    /\ Len(routed) > router_max_log_size + 1
    /\ Len(message_log) = router_max_log_size
    /\ message_log[1].message_id # routed[1].message

\* what find_networks_by_capability(tag) returns in the current state
Holders(tag) == find_networks_by_capability(State, tag)

\* the registered agents that hold tag, in registration order
RegisteredHolders(tag) ==
    LET held == SelectSeq(networks, LAMBDA e :
                    /\ DictHas(network_capabilities, e.key)
                    /\ tag \in DictGet(network_capabilities, e.key))
    IN  [i \in DOMAIN held |-> held[i].key]

\* agent b is not registered before the step and is not registered by it
StaysUnregistered(b) == ~DictHas(networks, b) /\ ~DictHas(networks', b)

EnqueuedInOrder(i, j) ==
    /\ i < j /\ j \in DOMAIN msgs
    /\ \E ci, cj \in DOMAIN calls :
          /\ ci < cj
          /\ calls[ci].message = i /\ calls[cj].message = j
          /\ calls[ci].protocol = calls[cj].protocol
    /\ msgs[i].sender_id = msgs[j].sender_id
    /\ msgs[i].receiver_id = msgs[j].receiver_id
    /\ DrainedForRegistered(i) /\ DrainedForRegistered(j)

\* receive_message of the destination's protocol was invoked with i and
\* later with j
ReceivedInOrder(i, j) ==
    \E ki, kj \in DOMAIN received :
        /\ ki < kj
        /\ received[ki].message = i /\ received[kj].message = j
        /\ received[ki].protocol = DictGet(networks, msgs[i].receiver_id)
        /\ received[kj].protocol = received[ki].protocol

\* C17 as stated: messages enqueued by the same sender to the same
\* destination are delivered to that destination (receive_message invoked on
\* its protocol) in the order in which they were enqueued.
C17_AsStated ==
    \A i, j \in 1..DelivMaxMsgs :
        [](EnqueuedInOrder(i, j) => <>ReceivedInOrder(i, j))

\* the draining task takes the messages of a protocol in the order in which
\* they were enqueued
DrainedInEnqueueOrder ==
    \A k1, k2 \in DOMAIN drained :
        (k1 < k2 /\ msgs[drained[k1]].sender_id = msgs[drained[k2]].sender_id)
            => drained[k1] < drained[k2]

\* C18 as stated: on any one protocol, a handler invoked by receive_message
\* runs to completion before a handler for another message is started on
\* that protocol, also when several route_message deliveries to that
\* protocol are in flight and the handler suspends.
C18_AsStated ==
    \A h1, h2 \in DOMAIN handling :
        (h1 # h2 /\ handling[h1].protocol = handling[h2].protocol) =>
            ~(handling[h1].pc = "running" /\ handling[h2].pc = "running")

(***************************************************************************)
(* Priority: the router's task and messages put on its priority queues.    *)
(***************************************************************************)
PrioMaxMsgs == 3        \* Message objects put on the priority queues

NextPriority ==
    \/ RegisterNetwork(Endpoint, {})
    \/ RouterStart
    \/ /\ Len(msgs) < PrioMaxMsgs
       /\ \E q \in MessagePriority : PutPriority(Endpoint, q)
    \/ ProcessPriorityQueues

SpecPriority == Init /\ [][NextPriority]_vars

\* C19 as stated: a message of priority p is never routed by the router's
\* loop while a queue of priority higher than p is non-empty.  (Within a
\* pass the higher levels are examined first and nothing is added to them,
\* so a higher queue that is non-empty after the pass was non-empty when the
\* message was routed.)
C19_AsStated ==
    [][\A k \in (Len(routed) + 1)..Len(routed') :
          \A q \in MessagePriority :
              MessagePriorityValue[q]
                    > MessagePriorityValue[msgs'[routed'[k].message].priority] =>
                  priority_queues'[q] = <<>>]_vars

(***************************************************************************)
(* Responses: Message objects constructed with any sender and receiver,    *)
(* and responses created to them and to other responses.                   *)
(***************************************************************************)
RespMaxMsgs == 3        \* Message objects constructed

\* message.py:55-71: a caller constructs a Message
Construct(sender, receiver, priority) ==
    Commit([State EXCEPT !.msgs =
               Alloc(@, Message("QUERY", sender, receiver, priority,
                                RequestPayload, None, FALSE, DefaultMaxRetries))])

\* message.py:110-130: a caller calls create_response on message i
CreateResponse(i, payload) ==
    Commit([State EXCEPT !.msgs = Alloc(@, create_response(msgs[i], payload))])

NextResponse ==
    \/ /\ Len(msgs) < RespMaxMsgs
       /\ \E sender, receiver \in Agents \cup {Broadcast} :
             Construct(sender, receiver, DefaultPriority)
    \/ /\ Len(msgs) < RespMaxMsgs
       /\ \E i \in DOMAIN msgs, k \in 1..NumAgents :
             CreateResponse(i, ReplyPayloads[k])

SpecResponse == Init /\ [][NextResponse]_vars

\* C20: for every message m and payload p, m.create_response(p) is a new
\* message with a fresh id different from m.id, parent_id equal to m.id,
\* sender_id equal to m.receiver_id, receiver_id equal to m.sender_id and
\* payload p, and m itself is unchanged.
C20_ResponseSwapsEnds ==
    [][\A i \in DOMAIN msgs, k \in 1..NumAgents :
          CreateResponse(i, ReplyPayloads[k]) =>
              LET r == msgs'[Len(msgs')]
              IN  /\ Len(msgs') = Len(msgs) + 1
                  /\ \A j \in DOMAIN msgs : r.message_id # msgs[j].message_id
                  /\ r.parent_message_id = msgs[i].message_id
                  /\ r.sender_id = msgs[i].receiver_id
                  /\ r.receiver_id = msgs[i].sender_id
                  /\ r.payload = ReplyPayloads[k]
                  /\ \A j \in DOMAIN msgs : msgs'[j] = msgs[j]]_vars

\* a response was created to a message whose sender and receiver differ,
\* and a response to that response
C20_Witness ==
    \E i, j, k \in DOMAIN msgs :
        /\ msgs[i].sender_id # msgs[i].receiver_id
        /\ msgs[i].message_type = "QUERY"
        /\ msgs[j].message_type = "QUERY_RESPONSE"
        /\ msgs[j].parent_message_id = i
        /\ msgs[k].message_type = "QUERY_RESPONSE"
        /\ msgs[k].parent_message_id = j
        /\ msgs[k].sender_id = msgs[i].sender_id

(***************************************************************************)
(* Start and stop: the protocols are started and stopped in any order,     *)
(* also while an earlier stop() is suspended waiting for its task, and     *)
(* messages are enqueued for the draining tasks.                           *)
(***************************************************************************)
StartMaxTasks == 3      \* start() calls that create a draining task
StartMaxStops == 2      \* stop() calls made
StartMaxMsgs == 1       \* Message objects constructed

NextStartStop ==
    \/ Len(tasks) < StartMaxTasks /\ \E a \in Agents : Start(a)
    \/ Len(stops) < StartMaxStops /\ \E a \in Agents : StopNotRunning(a)
    \/ Len(stops) < StartMaxStops /\ \E a \in Agents : StopBegin(a)
    \/ \E t \in DOMAIN tasks : TaskCancelled(t)
    \/ \E k \in DOMAIN stops : StopFinish(k)
    \/ /\ Len(msgs) < StartMaxMsgs
       /\ Send(Endpoint, Peer, FALSE, DefaultMaxRetries)
    \/ \E t \in DOMAIN tasks : ProcessMessages(t)

SpecStartStop == Init /\ [][NextStartStop]_vars

\* the draining tasks of protocol p in one of the given states
TasksIn(p, states) ==
    {t \in DOMAIN tasks : tasks[t].protocol = p /\ tasks[t].state \in states}

\* every stop() call made on protocol p has returned
StopsReturned(p) ==
    \A k \in DOMAIN stops : stops[k].protocol = p => stops[k].pc = "returned"

RStopMaxMsgs == 3       \* Message objects constructed by callers and fan-outs
RStopMaxStops == 1      \* router.stop() calls made

NextRouterStop ==
    \/ \E a \in {Endpoint, Peer} : RegisterNetwork(a, {"search"})
    \/ RouterStart
    \/ Len(router_stops) < RStopMaxStops /\ RouterStopBegin
    \/ \E k \in DOMAIN router_stops : RouterStopFinish(k)
    \/ /\ Len(msgs) + Len(networks) < RStopMaxMsgs
       /\ RouteByCapability("caller", "search")
    \/ /\ Len(msgs) < RStopMaxMsgs
       /\ \E m \in DOMAIN pending_responses[Endpoint] :
             Route("QUERY_RESPONSE", Endpoint, Endpoint, m)
    \/ \E c \in DOMAIN calls : SendTimeout(c)
    \/ \E c \in DOMAIN calls : SendTimeoutResume(c)
    \/ \E c \in DOMAIN calls : SendReturn(c)
    \/ \E f \in DOMAIN fanouts : GatherDone(f)

SpecRouterStop == Init /\ [][NextRouterStop]_vars

\* the step belongs to a router.stop() call
RouterStopStep == router_stops' # router_stops

\* route_by_capability call f was awaiting its responses when a stop() ran
InFlightAtStop(f) ==
    \E k \in DOMAIN router_stops : f \in router_stops[k].in_flight

\* a request ended with a response or with the absent result after its last
\* attempt timed out
ResolvedOrExhausted(c) ==
    /\ calls[c].pc = "done"
    /\ \/ calls[c].outcome = "response"
       \/ /\ calls[c].outcome = "none"
          /\ calls[c].timeouts = msgs[calls[c].message].max_retries + 1

\* the request goes on: it waits for its response with its correlation
\* registered and its timer armed, or its coroutine is about to resume with
\* the timeout or with the response; its future was not cancelled from
\* outside
CanProceed(c) ==
    /\ calls[c].pc = "wait_for"
    /\ \/ /\ calls[c].future = "PENDING"
          /\ calls[c].message \in DOMAIN pending_responses[calls[c].protocol]
       \/ calls[c].future = "CANCELLED" /\ calls[c].timed_out
       \/ calls[c].future = "FINISHED"

\* a route_by_capability call that was in flight at a stop() is not
\* cancelled: while a request of it is unfinished that request can go on,
\* once each request has resolved or exhausted its retries the call can
\* return, and when it has returned every request had so ended
NotCancelledByStop ==
    \A f \in DOMAIN fanouts :
        InFlightAtStop(f) =>
            LET children == {fanouts[f].children[i] : i \in DOMAIN fanouts[f].children}
            IN  /\ fanouts[f].pc \in {"gather", "done"}
                /\ \A c \in children :
                      calls[c].pc = "done" => ResolvedOrExhausted(c)
                /\ \A c \in children :
                      calls[c].pc # "done" => CanProceed(c)
                /\ (fanouts[f].pc = "gather"
                       /\ \A c \in children : calls[c].pc = "done")
                      => ENABLED GatherDone(f)
                /\ fanouts[f].pc = "done" =>
                      \A c \in children : calls[c].pc = "done"

\* C22: router.stop() leaves the registry, the audit log and every
\* protocol's correlation table unchanged, and a route_by_capability call
\* that is awaiting responses when stop() runs is not cancelled and still
\* returns once each of its requests has resolved or exhausted its retries.
C22_StopLeavesFanoutsAlone ==
    /\ [][RouterStopStep =>
             /\ UNCHANGED <<networks, network_capabilities, message_log>>
             /\ UNCHANGED <<pending_responses, calls, fanouts>>]_vars
    /\ []NotCancelledByStop

\* the router was stopped while a route_by_capability call awaited two
\* requests; the stop returned, both requests ran out of retries and the
\* call returned the empty list
C22_Witness ==
    \E f \in DOMAIN fanouts, k \in DOMAIN router_stops :
        /\ f \in router_stops[k].in_flight
        /\ router_stops[k].pc = "returned"
        /\ fanouts[f].pc = "done"
        /\ Len(fanouts[f].children) = 2
        /\ fanouts[f].result = <<>>
        /\ \A i \in DOMAIN fanouts[f].children :
              ResolvedOrExhausted(fanouts[f].children[i])

(***************************************************************************)
(* Handlers: one protocol endpoint whose handlers are registered and       *)
(* re-registered, a request it sends and waits for, and the messages it is *)
(* given.                                                                  *)
(***************************************************************************)
HandMaxMsgs == 3        \* Message objects constructed

\* the handlers a caller registers: h1 returns, h2 raises
RegisteredKinds == {"ok", "raise"}

NextHandlers ==
    \/ \E ty \in MessageType, kind \in RegisteredKinds :
          RegisterHandler(Endpoint, ty, kind)
    \/ /\ Len(msgs) < HandMaxMsgs
       /\ calls = <<>>
       /\ Send(Endpoint, Peer, TRUE, DefaultMaxRetries)
    \/ /\ Len(msgs) < HandMaxMsgs
       /\ \E ty \in MessageType, m \in 0..Len(msgs) : Receive(Endpoint, ty, Peer, m)
    \/ \E h \in DOMAIN handling : HandlerFinish(h)

SpecHandlers == Init /\ [][NextHandlers]_vars

\* the handler invocations the step starts
NewHandling == {handling'[h] : h \in (Len(handling) + 1)..Len(handling')}

\* registering kind for type ty, whatever handler the type has, makes kind
\* the type's handler
Overwrites ==
    \A ty \in MessageType, kind \in RegisteredKinds :
        handlers[Endpoint][ty] # kind =>
            ENABLED (RegisterHandler(Endpoint, ty, kind)
                        /\ handlers'[Endpoint][ty] = kind)

\* C23: register_handler keeps exactly one handler per message type: it
\* replaces the handler of that type on that protocol, whatever was
\* registered before, and nothing else, and a received message of a type
\* (not matching a pending correlation) invokes the handler registered last
\* for that type exactly once and no other handler.
C23_OneHandlerPerType ==
    /\ []Overwrites
    /\ [][/\ \A ty \in MessageType, kind \in RegisteredKinds :
                RegisterHandler(Endpoint, ty, kind) =>
                   /\ handlers'[Endpoint][ty] = kind
                   /\ \A a \in Agents, ty2 \in MessageType :
                         <<a, ty2>> # <<Endpoint, ty>> =>
                             handlers'[a][ty2] = handlers[a][ty2]
                   /\ handling' = handling
          /\ \A r \in NewReceived :
                ~MatchesEntry(r.protocol, r.message) =>
                   LET registered == handlers[r.protocol][msgs'[r.message].message_type]
                   IN  IF registered = NoHandler
                       THEN handling' = handling
                       ELSE /\ Len(handling') = Len(handling) + 1
                            /\ \A inv \in NewHandling :
                                  /\ inv.protocol = r.protocol
                                  /\ inv.message = r.message
                                  /\ inv.kind = registered]_vars

\* h1 was registered for a type and invoked for a message; then h2 was
\* registered for the same type and a second message of the type invoked h2
\* once and h1 not at all, while the handler of the other type stayed
C23_Witness ==
    \E h1, h2 \in DOMAIN handling :
        /\ h1 < h2
        /\ handling[h1].protocol = handling[h2].protocol
        /\ msgs[handling[h1].message].message_type = "QUERY"
        /\ msgs[handling[h2].message].message_type = "QUERY"
        /\ handling[h1].kind = "ok"
        /\ handling[h2].kind = "raise"
        /\ Cardinality({h \in DOMAIN handling :
                            handling[h].message = handling[h2].message}) = 1
        /\ handlers[handling[h1].protocol]["QUERY_RESPONSE"] = "ok"

(***************************************************************************)
(* Retry counters: Message objects constructed with any retry_count and    *)
(* max_retries, and calls of should_retry and increment_retry on them.     *)
(***************************************************************************)
CountMax == 3           \* largest retry_count and max_retries constructed
CountMaxMsgs == 1       \* Message objects constructed
CountMaxCalls == 2      \* should_retry calls made

\* message.py:55-71: a caller constructs a Message with its counters
ConstructWith(retry_count, max_retries) ==
    LET m == Message("QUERY", Endpoint, Peer, DefaultPriority, RequestPayload,
                     None, FALSE, max_retries)
    IN  Commit([State EXCEPT
                   !.msgs = Alloc(@, [m EXCEPT !.retry_count = retry_count])])

\* message.py:132-134: a caller calls should_retry on message i; the method
\* assigns nothing
ShouldRetry(i) ==
    Commit([State EXCEPT !.returned = Append(@,
               [method |-> "should_retry", message |-> i,
                on |-> to_dict(msgs[i]), value |-> should_retry(msgs[i])])])

\* message.py:136-138: a caller calls increment_retry on message i
IncrementRetry(i) ==
    Commit([State EXCEPT !.msgs[i] = increment_retry(@)])

NextCounters ==
    \/ /\ Len(msgs) < CountMaxMsgs
       /\ \E r, x \in 0..CountMax : ConstructWith(r, x)
    \/ /\ Len(returned) < CountMaxCalls
       /\ \E i \in DOMAIN msgs : ShouldRetry(i)
    \/ \E i \in DOMAIN msgs :
          msgs[i].retry_count < CountMax /\ IncrementRetry(i)

SpecCounters == Init /\ [][NextCounters]_vars

\* C24: should_retry() is true exactly when retry_count < max_retries: true
\* for every message with retry_count < max_retries and false once
\* retry_count = max_retries (and beyond), and calling it does not change
\* the message.
C24_ShouldRetryIsLessThan ==
    /\ [](\A k \in DOMAIN returned :
             returned[k].value = (returned[k].on.retry_count < returned[k].on.max_retries))
    /\ [][\A i \in DOMAIN msgs : ShouldRetry(i) => msgs' = msgs]_vars

\* should_retry was true for a message, the message was incremented up to
\* its max_retries, and then should_retry was false for it
C24_Witness ==
    \E j, k \in DOMAIN returned :
        /\ j < k
        /\ returned[j].message = returned[k].message
        /\ returned[j].value
        /\ ~returned[k].value
        /\ returned[k].on.retry_count = returned[k].on.max_retries
        /\ returned[k].on.max_retries > 0

(***************************************************************************)
(* Retry bound: Message objects constructed with any counters are handed   *)
(* to send_message, also twice while the first call is waiting; the        *)
(* destination never replies, so every attempt times out.                  *)
(***************************************************************************)
BoundMaxCount == 2      \* largest retry_count and max_retries constructed
BoundMaxMsgs == 1       \* Message objects constructed
BoundMaxCalls == 2      \* send_message calls made

NextRetryBound ==
    \/ /\ Len(msgs) < BoundMaxMsgs
       /\ calls = <<>>
       /\ \E r, x \in 0..BoundMaxCount : ConstructWith(r, x)
    \/ /\ Len(calls) < BoundMaxCalls
       /\ \E m \in DOMAIN msgs : SendHeld(Endpoint, m)
    \/ \E c \in DOMAIN calls : SendTimeout(c)
    \/ \E c \in DOMAIN calls : SendTimeoutResume(c)

SpecRetryBound == Init /\ [][NextRetryBound]_vars

\* the send_message calls for message i that resume from a timeout in the
\* step
TimedOutInStep(i) ==
    {c \in DOMAIN calls :
        /\ calls[c].message = i
        /\ calls'[c].timeouts = calls[c].timeouts + 1}

\* C25: for a message that starts with retry_count <= max_retries,
\* retry_count <= max_retries holds in every state reached by
\* send(wait_for_response=true) and its retries: the retry counter is
\* incremented only when should_retry() holds and only by one per timed-out
\* attempt.
C25_RetryCountBounded ==
    /\ [](\A c \in DOMAIN calls :
             calls[c].first_retry_count <= msgs[calls[c].message].max_retries
                 => msgs[calls[c].message].retry_count
                        <= msgs[calls[c].message].max_retries)
    /\ [][\A i \in DOMAIN msgs :
             /\ msgs'[i].max_retries = msgs[i].max_retries
             /\ IF TimedOutInStep(i) # {} /\ should_retry(msgs[i])
                THEN msgs'[i].retry_count = msgs[i].retry_count + 1
                ELSE msgs'[i].retry_count = msgs[i].retry_count]_vars

\* a message that started below its max_retries was sent by two calls at
\* once; both calls timed out until the counter reached max_retries and
\* returned the absent result
C25_Witness ==
    \E c1, c2 \in DOMAIN calls :
        /\ c1 # c2
        /\ calls[c1].message = calls[c2].message
        /\ calls[c1].first_retry_count < msgs[calls[c1].message].max_retries
        /\ calls[c2].first_retry_count = calls[c1].first_retry_count
        /\ calls[c1].outcome = "none" /\ calls[c2].outcome = "none"
        /\ calls[c1].timeouts >= 2
        /\ msgs[calls[c1].message].retry_count = msgs[calls[c1].message].max_retries

(***************************************************************************)
(* Serialisation: one Message object constructed with any type, priority   *)
(* and timestamp and with default or other optional fields, its to_dict    *)
(* mappings, and from_dict applied to those mappings with any subset of    *)
(* the optional keys removed.                                              *)
(***************************************************************************)
SerialMaxCalls == 2     \* to_dict and from_dict calls made on the message

\* the keys from_dict reads with data.get (message.py:102-107)
OptionalKeys == {"metadata", "parent_message_id", "requires_response",
                 "timeout_seconds", "retry_count", "max_retries"}

\* what from_dict supplies for a missing optional key
OptionalDefault ==
    [metadata |-> EmptyMap, parent_message_id |-> None,
     requires_response |-> FALSE, timeout_seconds |-> DefaultTimeoutSeconds,
     retry_count |-> 0, max_retries |-> DefaultMaxRetries]

\* optional fields a caller sets to something else than the default
OtherOptional ==
    [metadata |-> [k \in {"trace"} |-> 1], parent_message_id |-> 1,
     requires_response |-> TRUE, timeout_seconds |-> 5,
     retry_count |-> 1, max_retries |-> 2]

\* naive and aware timestamps, with and without microseconds
Timestamps ==
    {[second |-> 1, microsecond |-> us, aware |-> aw, utcoffset |-> off] :
        us \in {0, 5}, aw \in BOOLEAN, off \in {0}}
    \cup {[second |-> 1, microsecond |-> 5, aware |-> TRUE, utcoffset |-> 90]}

\* message.py:55-71: a caller constructs a Message
ConstructFull(type, priority, timestamp, optional) ==
    LET m == [message_id |-> None, message_type |-> type,
              sender_id |-> Endpoint, receiver_id |-> Peer,
              priority |-> priority, timestamp |-> timestamp,
              payload |-> RequestPayload, metadata |-> optional.metadata,
              parent_message_id |-> optional.parent_message_id,
              requires_response |-> optional.requires_response,
              timeout_seconds |-> optional.timeout_seconds,
              retry_count |-> optional.retry_count,
              max_retries |-> optional.max_retries]
    IN  Commit([State EXCEPT !.msgs = Alloc(@, m)])

\* message.py:73-89: a caller calls to_dict on message i
ToDict(i) ==
    Commit([State EXCEPT !.returned = Append(@,
               [method |-> "to_dict", message |-> i, on |-> msgs[i],
                value |-> to_dict(msgs[i])])])

\* message.py:91-108: a caller removes the keys in missing from the mapping
\* the k-th call returned and passes it to from_dict; the new object keeps
\* the message_id found in the mapping
FromDict(k, missing) ==
    LET whole == returned[k].value
        data == [key \in DOMAIN whole \ missing |-> whole[key]]
    IN  /\ returned[k].method = "to_dict"
        /\ Commit([State EXCEPT
               !.msgs = Append(@, from_dict(data)),
               !.returned = Append(@,
                   [method |-> "from_dict", message |-> returned[k].message,
                    on |-> data, value |-> Len(msgs) + 1])])

NextSerial ==
    \/ /\ msgs = <<>>
       /\ \E type \in MessageType, priority \in MessagePriority,
             timestamp \in Timestamps, optional \in {OptionalDefault, OtherOptional} :
             ConstructFull(type, priority, timestamp, optional)
    \/ /\ Len(returned) < SerialMaxCalls
       /\ \E i \in DOMAIN msgs : ToDict(i)
    \/ /\ Len(returned) < SerialMaxCalls
       /\ \E k \in DOMAIN returned, missing \in SUBSET OptionalKeys :
             FromDict(k, missing)

SpecSerial == Init /\ [][NextSerial]_vars

\* C26: Message.from_dict(m.to_dict()) equals m field for field for every
\* message m, and from_dict applied to a mapping lacking any subset of the
\* optional keys metadata, parent_message_id, requires_response,
\* timeout_seconds, retry_count, max_retries succeeds and fills each missing
\* key with its default ({}, null, false, 30.0, 0, 3), the other fields
\* being those of m.
C26_RoundTripAndDefaults ==
    \A k \in DOMAIN returned :
        returned[k].method = "from_dict" =>
            LET e == returned[k]
                m == msgs[e.message]
                made == msgs[e.value]
                missing == OptionalKeys \ DOMAIN e.on
            IN  /\ DOMAIN made = DOMAIN m
                /\ \A f \in DOMAIN m :
                      made[f] = IF f \in missing THEN OptionalDefault[f] ELSE m[f]
                /\ missing = {} => made = m

\* a message with an aware timestamp, microseconds and no default optional
\* field was converted and restored whole, and a message was restored from
\* a mapping without any optional key
C26_Witness ==
    \E k \in DOMAIN returned : LET e == returned[k] IN
        /\ e.method = "from_dict"
        /\ msgs[e.value].message_id = msgs[e.message].message_id
        /\ e.value # e.message
        /\ \/ /\ DOMAIN e.on = DOMAIN msgs[e.message]
              /\ msgs[e.message].timestamp.aware
              /\ msgs[e.message].timestamp.microsecond # 0
              /\ msgs[e.message].max_retries # DefaultMaxRetries
              /\ msgs[e.value] = msgs[e.message]
           \/ /\ DOMAIN e.on \cap OptionalKeys = {}
              /\ msgs[e.message].max_retries # DefaultMaxRetries
              /\ msgs[e.value].max_retries = DefaultMaxRetries

(***************************************************************************)
(* The two registries of the router, under the Registry specification.     *)
(***************************************************************************)
\* C29: after any sequence of register_network and unregister_network
\* calls the protocol registry and the capability registry have exactly the
\* same set of agent ids, so every id returned by
\* find_networks_by_capability has a protocol entry and the protocol lookup
\* of route_by_capability never fails.
C29_RegistriesAgree ==
    /\ DictKeys(networks) = DictKeys(network_capabilities)
    /\ \A tag \in Capabilities :
          \A i \in DOMAIN Holders(tag) : DictHas(networks, Holders(tag)[i])
    /\ \A f \in DOMAIN fanouts : fanouts[f].pc # "raised"

\* an agent was registered, found by a fan-out whose lookup gave its
\* protocol, and unregistered afterwards, while another agent is registered
C29_Witness ==
    \E f \in DOMAIN fanouts :
        /\ fanouts[f].children # <<>>
        /\ \E i \in DOMAIN fanouts[f].network_ids :
              /\ ~DictHas(networks, fanouts[f].network_ids[i])
              /\ ~DictHas(network_capabilities, fanouts[f].network_ids[i])
              /\ calls[fanouts[f].children[i]].protocol = fanouts[f].network_ids[i]
        /\ networks # <<>>

(***************************************************************************)
(* Fan-out requests: messages of any type and priority held by a caller    *)
(* and routed by capability to one or two registered agents, messages      *)
(* passed to either agent's receive_message with any parent id, and the    *)
(* timers of the requests.                                                 *)
(***************************************************************************)
ReqMaxMsgs == 4         \* Message objects constructed by callers and fan-outs
ReqMaxTimeouts == 1     \* timeouts that occur
ReqMaxFanouts == 2      \* route_by_capability calls made

\* message.py:55-71: a caller constructs the message it will route
ConstructOriginal(type, priority, metadata) ==
    LET m == [Message(type, "caller", Broadcast, priority, RequestPayload,
                      None, FALSE, DefaultMaxRetries)
                 EXCEPT !.metadata = metadata]
    IN  Commit([State EXCEPT !.msgs = Alloc(@, m)])

\* what the callers route: a plain query, and a message of the other type
\* with a priority and metadata that are not the defaults
Originals ==
    {[message_type |-> "QUERY", priority |-> DefaultPriority,
      metadata |-> EmptyMap],
     [message_type |-> "QUERY_RESPONSE", priority |-> "CRITICAL",
      metadata |-> OtherOptional.metadata]}

\* the messages that were handed to a send_message call
Sent == {calls[c].message : c \in DOMAIN calls}

\* the timeouts that occurred so far
TimeoutsSoFar ==
    LET RECURSIVE Sum(_)
        Sum(c) == IF c = 0 THEN 0
                  ELSE Sum(c - 1) + calls[c].timeouts
                           + (IF calls[c].timed_out THEN 1 ELSE 0)
    IN  Sum(Len(calls))

NextRequests ==
    \/ \E a \in {Endpoint, Peer} : RegisterNetwork(a, {"search"})
    \/ /\ msgs = <<>>
       /\ \E o \in Originals :
             ConstructOriginal(o.message_type, o.priority, o.metadata)
    \/ /\ Len(msgs) + Len(networks) <= ReqMaxMsgs
       /\ Len(fanouts) < ReqMaxFanouts
       /\ \E m \in DOMAIN msgs \ Sent : RouteHeldByCapability(m, "search")
    \/ /\ Len(msgs) < ReqMaxMsgs
       /\ \E a \in {Endpoint, Peer}, parent \in DOMAIN msgs :
             Receive(a, "QUERY_RESPONSE", a, parent)
    \/ /\ TimeoutsSoFar < ReqMaxTimeouts
       /\ \E c \in DOMAIN calls : SendTimeout(c)
    \/ \E c \in DOMAIN calls : SendTimeoutResume(c)
    \/ \E c \in DOMAIN calls : SendReturn(c)
    \/ \E f \in DOMAIN fanouts : GatherDone(f)

SpecRequests == Init /\ [][NextRequests]_vars

\* the requests of the route_by_capability calls: call f's i-th request is
\* the message of its i-th send_message call
Requests == {<<f, i>> : f \in DOMAIN fanouts, i \in 1..2} \cap
            UNION {{<<f, i>> : i \in DOMAIN fanouts[f].children} : f \in DOMAIN fanouts}

RequestCall(r) == fanouts[r[1]].children[r[2]]

RequestOf(r) == calls[RequestCall(r)].message

\* C27: each request that route_by_capability creates for a capable agent
\* has a fresh id, different from the original message's id, from every
\* other fan-out request's id and from every other message's, parent_id
\* equal to the original message's id, receiver_id equal to that agent's id
\* and requires_response = true, and the original message is not modified.
C27_FanOutRequests ==
    /\ [](\A r \in Requests :
            LET f == fanouts[r[1]]
                req == msgs[RequestOf(r)]
                orig == msgs[f.message]
            IN  /\ RequestOf(r) # f.message
                /\ req.message_id # orig.message_id
                /\ \A o \in Requests \ {r} :
                      msgs[RequestOf(o)].message_id # req.message_id
                /\ \A k \in DOMAIN msgs \ {RequestOf(r)} :
                      msgs[k].message_id # req.message_id
                /\ req.parent_message_id = orig.message_id
                /\ req.receiver_id = f.network_ids[r[2]]
                /\ req.requires_response)
    /\ [][\A f \in DOMAIN fanouts' :
             /\ fanouts'[f].message \in DOMAIN msgs
             /\ msgs'[fanouts'[f].message] = msgs[fanouts'[f].message]]_vars

\* a CRITICAL message with metadata was routed by capability twice, the
\* second time to two agents, and one of its requests was sent again after
\* a timeout
C27_Witness ==
    /\ Len(fanouts) = 2
    /\ fanouts[1].message = fanouts[2].message
    /\ Len(fanouts[2].children) = 2
    /\ msgs[fanouts[1].message].priority = "CRITICAL"
    /\ msgs[fanouts[1].message].metadata # EmptyMap
    /\ \E r \in Requests : msgs[RequestOf(r)].retry_count > 0

\* the agent request r was created for
RequestAgent(r) == fanouts[r[1]].network_ids[r[2]]

\* C30: route_by_capability issues each fan-out request by calling send on
\* the capable agent's own protocol: the request is put on that agent's own
\* delivery queue and on no other, its sender_id ends up being that agent's
\* id rather than the original sender's, and its correlation entry is held
\* in that agent's protocol and in no other, so the request is resolved
\* only by a message passed to that same agent's receive whose parent_id is
\* the fan-out request's id.
C30_SentOnOwnProtocol ==
    /\ [](\A r \in Requests :
            LET c == RequestCall(r)
                a == RequestAgent(r)
                req == msgs[RequestOf(r)]
                Queued(p, m) ==
                    \E k \in DOMAIN message_queue[p] : message_queue[p][k] = m
            IN  /\ calls[c].protocol = DictGet(networks, a)
                /\ calls[c].wait
                /\ Queued(a, RequestOf(r))
                /\ \A q \in Agents \ {a} : ~Queued(q, RequestOf(r))
                /\ req.sender_id = a
                /\ \A q \in Agents \ {a} :
                      req.message_id \notin DOMAIN pending_responses[q]
                /\ calls[c].future = "PENDING" =>
                      /\ req.message_id \in DOMAIN pending_responses[a]
                      /\ pending_responses[a][req.message_id] = c)
    /\ [][\A r \in Requests :
             (/\ calls[RequestCall(r)].future = "PENDING"
              /\ calls'[RequestCall(r)].future = "FINISHED") =>
                 \E e \in NewReceived :
                     /\ e.protocol = RequestAgent(r)
                     /\ msgs'[e.message].parent_message_id =
                            msgs[RequestOf(r)].message_id
                     /\ calls'[RequestCall(r)].response = e.message]_vars

\* a caller's message was fanned out to an agent; a message naming the
\* request as its parent was passed to the other agent's receive and
\* resolved nothing, then one passed to the agent's own receive resolved
\* the request and the send returned it
C30_Witness ==
    \E r \in Requests :
        /\ msgs[fanouts[r[1]].message].sender_id # RequestAgent(r)
        /\ calls[RequestCall(r)].outcome = "response"
        /\ \E i, j \in DOMAIN received :
              /\ i < j
              /\ received[i].protocol # RequestAgent(r)
              /\ received[i].outcome # "resolved"
              /\ msgs[received[i].message].parent_message_id =
                     msgs[RequestOf(r)].message_id
              /\ received[j].protocol = RequestAgent(r)
              /\ received[j].outcome = "resolved"
              /\ calls[RequestCall(r)].response = received[j].message

(***************************************************************************)
(* Starvation, under the Priority specification.                           *)
(***************************************************************************)
\* the HIGH or the CRITICAL queue holds a message
HighLoad == priority_queues["HIGH"] # <<>> \/ priority_queues["CRITICAL"] # <<>>

\* every pass takes and routes the head of every non-empty queue, whatever
\* the other queues hold, so a message waits for as many passes as there are
\* messages before it in its own queue
PassServesEveryLevel ==
    [][LET RoutedInStep ==
              {routed'[k].message : k \in (Len(routed) + 1)..Len(routed')}
       IN  Len(routed') > Len(routed) =>
              \A q \in MessagePriority :
                  priority_queues[q] # <<>> =>
                      /\ Head(priority_queues[q]) \in RoutedInStep
                      /\ priority_queues'[q] = Tail(priority_queues[q])]_vars

\* C28 as stated, for the steps of the execution it describes: while the
\* HIGH or the CRITICAL queue is kept from becoming empty, a message waiting
\* in a lower-priority queue is not routed: it is still waiting after the
\* step.
C28_AsStated ==
    [][(HighLoad /\ HighLoad') =>
          \A q \in LowerPriorities("HIGH") :
              \A i \in DOMAIN priority_queues[q] :
                  \E j \in DOMAIN priority_queues'[q] :
                      priority_queues'[q][j] = priority_queues[q][i]]_vars

(***************************************************************************)
(* Attempts: one send_message call that waits for its response, the timers *)
(* of its attempts, and messages naming the request or nothing as their    *)
(* parent passed to the sender's receive_message at any time, with or      *)
(* without a handler registered for their type.                            *)
(***************************************************************************)
AttMaxMsgs == 3         \* Message objects constructed
AttMaxCalls == 1        \* send_message calls made
AttMaxHandling == 2     \* handler invocations started

NextAttempts ==
    \/ RegisterHandler(Endpoint, "QUERY_RESPONSE", "ok")
    \/ /\ Len(msgs) < AttMaxMsgs
       /\ Len(calls) < AttMaxCalls
       /\ \E x \in 0..MaxRetriesBound : Send(Endpoint, Peer, TRUE, x)
    \/ \E c \in DOMAIN calls : SendTimeout(c)
    \/ \E c \in DOMAIN calls : SendTimeoutResume(c)
    \/ \E c \in DOMAIN calls : SendReturn(c)
    \/ /\ Len(msgs) < AttMaxMsgs
       /\ Len(handling) < AttMaxHandling
       /\ \E m \in 0..Len(msgs) : Receive(Endpoint, "QUERY_RESPONSE", Peer, m)
    \/ \E h \in DOMAIN handling : HandlerFinish(h)

SpecAttempts == Init /\ [][NextAttempts]_vars

\* the correlation key of send_message call c: its message's id
KeyOf(c) == msgs[calls[c].message].message_id

\* call c waits with its handle pending
AttemptPending(c) == calls[c].pc = "wait_for" /\ calls[c].future = "PENDING"

\* the timer of an attempt of call c has expired and cancelled the handle;
\* the call has not resumed yet
TimedOutNotResumed(c) == calls[c].pc = "wait_for" /\ calls[c].timed_out

\* the correlation table of the call's protocol has an entry for its key
HasEntry(c) == KeyOf(c) \in DOMAIN pending_responses[calls[c].protocol]

\* the timer of the last attempt of call c has expired
AfterFinalTimeout(c) ==
    \/ TimedOutNotResumed(c) /\ ~should_retry(msgs[calls[c].message])
    \/ calls[c].pc = "done" /\ calls[c].outcome = "none"

\* the receive_message invocations of the step that were given a message
\* naming the request of call c as its parent, on the protocol of the call
ResponsesTo(c) ==
    {e \in NewReceived :
        /\ e.protocol = calls[c].protocol
        /\ msgs'[e.message].parent_message_id = KeyOf(c)}

\* the message was treated as an ordinary one: looked up in the handler table
Ordinary(e) == e.outcome \in {"handler", "no_handler"}

\* C31 as stated: a response with parent_id = m.id resolves the send if it
\* arrives during any attempt, and a response arriving after the final
\* timeout matches no correlation and is treated as an ordinary message.
C31_AsStated ==
    [][\A c \in DOMAIN calls : \A e \in ResponsesTo(c) :
          /\ (calls[c].pc = "wait_for" /\ calls[c].future # "FINISHED"
                 /\ ~AfterFinalTimeout(c)) =>
                /\ e.outcome = "resolved"
                /\ calls'[c].response = e.message
          /\ AfterFinalTimeout(c) => Ordinary(e)]_vars

\* C31, amended: all attempts of one send(wait_for_response=true) use the
\* same message id as correlation key, and the timed-out entry is removed
\* and the next attempt's entry created in one step, so that the entry is in
\* the table whenever the call waits with its handle pending.  A response
\* with parent_id = m.id resolves the send if it arrives while the handle of
\* any attempt is pending (a reply to an earlier attempt included), and the
\* send returns it.  The first one that arrives after an attempt's timer
\* has cancelled the handle and before the send has resumed removes the
\* entry and is dropped: it resolves nothing and reaches no handler, and the
\* send goes on to its next attempt or returns absent.  One that arrives
\* while the table has no entry for m.id (after the send has resumed from
\* its final timeout, after an earlier response has resolved it, or after
\* one was dropped and before the send has resumed) matches no correlation
\* and is treated as an ordinary message.
C31_AttemptsShareOneKey ==
    /\ [](\A c \in DOMAIN calls :
            LET p == calls[c].protocol
            IN  /\ \A k \in DOMAIN pending_responses[p] :
                      pending_responses[p][k] = c => k = KeyOf(c)
                /\ AttemptPending(c) =>
                      /\ KeyOf(c) \in DOMAIN pending_responses[p]
                      /\ pending_responses[p][KeyOf(c)] = c
                /\ calls[c].pc = "done" =>
                      /\ KeyOf(c) \notin DOMAIN pending_responses[p]
                      /\ calls[c].outcome = "response" =>
                            msgs[calls[c].response].parent_message_id = KeyOf(c)
                      /\ calls[c].outcome = "none" =>
                            calls[c].timeouts = msgs[calls[c].message].max_retries + 1)
    /\ [][\A c \in DOMAIN calls :
             /\ KeyOf(c)' = KeyOf(c)
             /\ (TimedOutNotResumed(c) /\ ~TimedOutNotResumed(c)'
                    /\ calls'[c].pc = "wait_for") => AttemptPending(c)'
             /\ \A e \in ResponsesTo(c) :
                   /\ AttemptPending(c) =>
                         /\ e.outcome = "resolved"
                         /\ calls'[c].future = "FINISHED"
                         /\ calls'[c].response = e.message
                         /\ handling' = handling
                   /\ (TimedOutNotResumed(c) /\ HasEntry(c)) =>
                         /\ e.outcome = "dropped"
                         /\ calls' = calls
                         /\ handling' = handling
                         /\ ~HasEntry(c)'
                   /\ ~HasEntry(c) => Ordinary(e)]_vars

\* a reply arrived after the first attempt's timer had expired and before
\* the send resumed, and was dropped; a second reply arrived during the
\* second attempt and the send returned it
C31_Witness ==
    \E c \in DOMAIN calls :
        /\ calls[c].outcome = "response"
        /\ calls[c].attempts = 2
        /\ \E i, j \in DOMAIN received :
              /\ i < j
              /\ received[i].outcome = "dropped"
              /\ msgs[received[i].message].parent_message_id = KeyOf(c)
              /\ received[j].outcome = "resolved"
              /\ calls[c].response = received[j].message

(***************************************************************************)
(* Audit trail: messages routed to registered and to unknown agents and by *)
(* broadcast, messages routed by capability, handlers that suspend, and    *)
(* the draining task of one agent's protocol.                              *)
(***************************************************************************)
TrailMaxMsgs == 4       \* Message objects constructed by callers, broadcasts and fan-outs

NextAuditTrail ==
    \/ \E a \in Agents : RegisterNetwork(a, {"search"})
    \/ \E a \in Agents : RegisterHandler(a, "QUERY", "ok")
    \/ /\ Len(msgs) + Len(networks) < TrailMaxMsgs
       /\ \E r \in Agents \cup {Broadcast} : Route("QUERY", "caller", r, None)
    \/ /\ Len(msgs) + Len(networks) < TrailMaxMsgs
       /\ RouteByCapability("caller", "search")
    \/ Start(Endpoint)
    \/ \E t \in DOMAIN tasks : ProcessMessages(t)
    \/ \E h \in DOMAIN handling : HandlerFinish(h)

SpecAuditTrail == Init /\ [][NextAuditTrail]_vars

\* the message is the per-recipient copy of a broadcast or a request of
\* route_by_capability: an object the router constructed
RouterMade(m) ==
    \/ \E c \in DOMAIN calls : calls[c].fanout # None /\ calls[c].message = m
    \/ /\ \A k \in DOMAIN routed : routed[k].message # m
       /\ \E j \in DOMAIN received : received[j].message = m

\* C32: every route_message call appends exactly one audit-log entry, the
\* snapshot of its message, before any delivery is attempted and whatever
\* the outcome (delivered, destination not found, broadcast to n
\* recipients); the per-recipient broadcast copies and the requests created
\* by route_by_capability add no audit-log entry.
C32_OneEntryPerRouteCall ==
    /\ [](/\ Len(message_log) = Len(routed)
          /\ \A k \in DOMAIN routed :
                message_log[k] = to_dict(msgs[routed[k].message])
          /\ \A m \in DOMAIN msgs :
                RouterMade(m) =>
                    \A k \in DOMAIN message_log :
                        message_log[k].message_id # msgs[m].message_id)
    /\ [][LET NewRouted == SubSeq(routed', Len(routed) + 1, Len(routed'))
          IN  /\ message_log' =
                    message_log \o [k \in DOMAIN NewRouted |->
                                        to_dict(msgs'[NewRouted[k].message])]
              /\ received' # received => NewRouted # <<>>]_vars

\* a call for an agent that is not registered and a broadcast that gave
\* copies to two recipients, one of whose handlers is still running, were
\* logged
C32_Witness ==
    /\ Len(message_log) >= 2
    /\ \E k \in DOMAIN routed : ~routed[k].result
    /\ \E k \in DOMAIN routed :
          /\ msgs[routed[k].message].receiver_id = Broadcast
          /\ Cardinality({m \in DOMAIN msgs : RouterMade(m)}) = 2
    /\ \E h \in DOMAIN handling :
          handling[h].pc = "running" /\ RouterMade(handling[h].message)

====
